---- MODULE Spec2Model ----
(***************************************************************************)
(* Metadata research and reconciliation pipeline of the item-research      *)
(* backend: the research service (LLM stage, web stage, fusion) of         *)
(* src/service/item_metadata_service.py and the request handler with its   *)
(* duplicate gate and auto-create policy of src/routes/wiki.py, alone and  *)
(* as two concurrent invocations on the one catalog, the Field Validator   *)
(* on its own, and the JSON recovery and the update-or-create step of the  *)
(* batch updater of src/scripts/new.py.                                    *)
(***************************************************************************)
EXTENDS Integers, Sequences, FiniteSets, TLC

\* The year datetime.now() reports.
VARIABLE now

(***************************************************************************)
(* Python values.  A value is a record with the fields t (type tag), s and *)
(* n.  A str is held as its leading characters s (one-character strings)   *)
(* and its length n: group names are held whole (n = Len(s)), a long free  *)
(* text is held as a short leading label and its length.  An int is held   *)
(* in n.                                                                   *)
(***************************************************************************)
None == [t |-> "none", s |-> <<>>, n |-> 0]

Str(chars) == [t |-> "str", s |-> chars, n |-> Len(chars)]

Text(label, length) == [t |-> "str", s |-> label, n |-> length]

IntV(i) == [t |-> "int", s |-> <<>>, n |-> i]

\* bool(v): None, "" and 0 are falsy.
Truthy(v) ==
    /\ v.t # "none"
    /\ (v.t = "str" => v.n > 0)
    /\ (v.t = "int" => v.n # 0)

Min2(a, b) == IF a <= b THEN a ELSE b

\* v[:k] of a str.
Slice(v, k) ==
    [t |-> "str", s |-> SubSeq(v.s, 1, Min2(Len(v.s), k)), n |-> Min2(v.n, k)]

DigitChars == <<"0", "1", "2", "3", "4", "5", "6", "7", "8", "9">>

RECURSIVE NatDigits(_)
NatDigits(i) ==
    IF i < 10 THEN <<DigitChars[i + 1]>>
    ELSE NatDigits(i \div 10) \o <<DigitChars[(i % 10) + 1]>>

\* str(v): a str is itself, an int its decimal digits.
PyStr(v) ==
    CASE v.t = "str" -> v
      [] v.t = "int" -> Str(IF v.n < 0 THEN <<"-">> \o NatDigits(-v.n) ELSE NatDigits(v.n))
      [] OTHER -> Str(<<"N", "o", "n", "e">>)

DigitValue(c) == (CHOOSE i \in 1..10 : DigitChars[i] = c) - 1

IsDigit(c) == \E i \in 1..10 : DigitChars[i] = c

RECURSIVE DecimalValue(_)
DecimalValue(chars) ==
    IF chars = <<>> THEN 0
    ELSE 10 * DecimalValue(SubSeq(chars, 1, Len(chars) - 1)) + DigitValue(chars[Len(chars)])

\* int(v): [ok |-> TRUE, n |-> value], or ok = FALSE where Python raises
\* ValueError or TypeError (a str that is not all digits, None).
PyInt(v) ==
    CASE v.t = "int" -> [ok |-> TRUE, n |-> v.n]
      [] v.t = "str" /\ v.n = Len(v.s) /\ v.n > 0 /\ (\A i \in 1..Len(v.s) : IsDigit(v.s[i]))
            -> [ok |-> TRUE, n |-> DecimalValue(v.s)]
      [] OTHER -> [ok |-> FALSE, n |-> 0]

\* float('inf'), which json.loads gives for Infinity and for 1e999.
Infinity == [t |-> "float", s |-> <<"i", "n", "f">>, n |-> 0]

\* int(v) raises OverflowError, which is neither ValueError nor TypeError.
IntOverflows(v) == v = Infinity

UpperChars == <<"A", "B", "C", "D", "E", "F", "G", "H", "I", "J", "K", "L", "M",
                "N", "O", "P", "Q", "R", "S", "T", "U", "V", "W", "X", "Y", "Z">>

LowerChars == <<"a", "b", "c", "d", "e", "f", "g", "h", "i", "j", "k", "l", "m",
                "n", "o", "p", "q", "r", "s", "t", "u", "v", "w", "x", "y", "z">>

\* str.lower() on the characters of a str.
Lower(chars) ==
    [i \in 1..Len(chars) |->
        IF \E j \in 1..26 : UpperChars[j] = chars[i]
        THEN LowerChars[CHOOSE j \in 1..26 : UpperChars[j] = chars[i]]
        ELSE chars[i]]

\* a in b, for two str.
IsSubstring(a, b) ==
    \E i \in 0..(Len(b) - Len(a)) : SubSeq(b, i + 1, i + Len(a)) = a

(***************************************************************************)
(* Python dicts are functions whose domain is the set of keys present.     *)
(***************************************************************************)
EmptyDict == <<>>

\* d.get(k)
Get(d, k) == IF k \in DOMAIN d THEN d[k] ELSE None

\* d with d[k] = v assigned.
Put(d, k, v) == [x \in (DOMAIN d) \cup {k} |-> IF x = k THEN v ELSE d[x]]

\* A collaborator's answer that is no dict at all is held as a value record.
IsDict(x) == "t" \notin DOMAIN x

(***************************************************************************)
(* Field Validator                                                         *)
(***************************************************************************)
category_group_mappings ==
  [
    games |-> [
        video_games |-> <<
            <<"A","c","t","i","o","n">>,
            <<"A","d","v","e","n","t","u","r","e">>,
            <<"R","P","G">>,
            <<"S","t","r","a","t","e","g","y">>,
            <<"S","i","m","u","l","a","t","i","o","n">>,
            <<"S","p","o","r","t","s">>,
            <<"R","a","c","i","n","g">>,
            <<"P","u","z","z","l","e">>,
            <<"P","l","a","t","f","o","r","m">>,
            <<"F","i","g","h","t","i","n","g">>,
            <<"S","h","o","o","t","e","r">>,
            <<"H","o","r","r","o","r">>,
            <<"I","n","d","i","e">>,
            <<"M","M","O">>,
            <<"M","O","B","A">> >> ],
    sports |-> [
        soccer |-> <<
            <<"C","l","u","b"," ","T","e","a","m">>,
            <<"N","a","t","i","o","n","a","l"," ","T","e","a","m">>,
            <<"L","e","a","g","u","e">> >>,
        basketball |-> <<
            <<"N","B","A"," ","T","e","a","m">>,
            <<"I","n","t","e","r","n","a","t","i","o","n","a","l"," ","T","e","a","m">>,
            <<"C","o","l","l","e","g","e">> >>,
        hockey |-> <<
            <<"N","H","L"," ","T","e","a","m">>,
            <<"I","n","t","e","r","n","a","t","i","o","n","a","l"," ","T","e","a","m">>,
            <<"J","u","n","i","o","r"," ","L","e","a","g","u","e">> >> ],
    music |-> [
        artists |-> <<
            <<"P","o","p">>,
            <<"R","o","c","k">>,
            <<"H","i","p","-","H","o","p">>,
            <<"E","l","e","c","t","r","o","n","i","c">>,
            <<"C","l","a","s","s","i","c","a","l">>,
            <<"J","a","z","z">>,
            <<"C","o","u","n","t","r","y">> >>,
        albums |-> <<
            <<"S","t","u","d","i","o"," ","A","l","b","u","m">>,
            <<"L","i","v","e"," ","A","l","b","u","m">>,
            <<"C","o","m","p","i","l","a","t","i","o","n">>,
            <<"E","P">>,
            <<"S","o","u","n","d","t","r","a","c","k">> >> ] ]

\* datetime.now().year when the first call is made.
CurrentYear == 2026

MinYear == 1800

YearSlack == 2

DescriptionLimit == 500

\* Faulty variant of _validate_group: a group that matches no entry of the
\* vocabulary is rejected.
validate_group_known_only(group, category, subcategory) ==
    IF category \notin DOMAIN category_group_mappings THEN group
    ELSE LET by_sub == category_group_mappings[category]
             subcategory_groups ==
                 IF subcategory \in DOMAIN by_sub THEN by_sub[subcategory] ELSE <<>>
             g == Lower(group.s)
             matching == {i \in 1..Len(subcategory_groups) :
                            \/ IsSubstring(g, Lower(subcategory_groups[i]))
                            \/ IsSubstring(Lower(subcategory_groups[i]), g)}
         IN IF matching # {}
            THEN Str(subcategory_groups[CHOOSE i \in matching :
                                           \A j \in matching : i <= j])
            ELSE None

\* _validate_group: the canonical entry of the first exact match, else of the
\* first partial match, else the group as given.
validate_group(group, category, subcategory) ==
    IF category \notin DOMAIN category_group_mappings THEN group
    ELSE LET by_sub == category_group_mappings[category]
             subcategory_groups ==
                 IF subcategory \in DOMAIN by_sub THEN by_sub[subcategory] ELSE <<>>
             g == Lower(group.s)
             exact == {i \in 1..Len(subcategory_groups) :
                          g = Lower(subcategory_groups[i])}
             partial == {i \in 1..Len(subcategory_groups) :
                          \/ IsSubstring(g, Lower(subcategory_groups[i]))
                          \/ IsSubstring(Lower(subcategory_groups[i]), g)}
             First(S) == CHOOSE i \in S : \A j \in S : i <= j
         IN IF exact # {} THEN Str(subcategory_groups[First(exact)])
            ELSE IF partial # {} THEN Str(subcategory_groups[First(partial)])
            ELSE group

\* The year check of _validate_llm_metadata, for item_year and item_year_to.
YearAccepted(raw_metadata, key) ==
    /\ key \in DOMAIN raw_metadata
    /\ Truthy(raw_metadata[key])
    /\ PyInt(raw_metadata[key]).ok
    /\ MinYear <= PyInt(raw_metadata[key]).n
    /\ PyInt(raw_metadata[key]).n <= now + YearSlack

\* _validate_llm_metadata: the validated mapping; an answer that is no dict
\* raises inside the try and yields the empty mapping, and so does a year
\* whose int() raises an exception the inner except does not name.
validate_llm_metadata(raw_metadata, category, subcategory) ==
    IF ~IsDict(raw_metadata) THEN EmptyDict
    ELSE IF \E k \in {"item_year", "item_year_to"} :
                k \in DOMAIN raw_metadata /\ IntOverflows(raw_metadata[k])
    THEN EmptyDict
    ELSE LET present(k) == k \in DOMAIN raw_metadata /\ Truthy(raw_metadata[k])
             keys == {k \in {"description", "group"} : present(k)}
                       \cup {k \in {"item_year", "item_year_to"} :
                                YearAccepted(raw_metadata, k)}
         IN [k \in keys |->
                CASE k = "description" ->
                        Slice(PyStr(raw_metadata[k]), DescriptionLimit)
                  [] k = "group" ->
                        validate_group(PyStr(raw_metadata[k]), category, subcategory)
                  [] OTHER -> IntV(PyInt(raw_metadata[k]).n)]

(***************************************************************************)
(* Research service: LLM stage, web stage, fusion                          *)
(***************************************************************************)
LLM_CONFIDENCE == 90

WEB_CONFIDENCE == 70

WEB_BONUS == 5

CONFIDENCE_CAP == 95

\* _research_with_llm.  llm is the LLM collaborator as this call finds it:
\* available (is_available()), raises/error (research_metadata or the prompt
\* builder raising) and response (what research_metadata returns).
research_with_llm(llm, category, subcategory) ==
    IF ~llm.available
    THEN [llm_confidence |-> 0, llm_data |-> EmptyDict,
          llm_error |-> "LLM client not available"]
    ELSE IF llm.raises
    THEN [llm_confidence |-> 0, llm_data |-> EmptyDict, llm_error |-> llm.error]
    ELSE [llm_confidence |-> LLM_CONFIDENCE,
          llm_data |-> validate_llm_metadata(llm.response, category, subcategory),
          llm_method |-> "groq_metadata_research"]

\* Faulty variant: item_year_to is a core attribute too.
identify_missing_attributes_with_year_to(llm_data) ==
    SelectSeq(<<"description", "group", "item_year", "item_year_to">>,
              LAMBDA attr : ~Truthy(Get(llm_data, attr)))
        \o <<"reference_url", "image_url">>

\* Faulty variant: only the missing core attributes are listed.
identify_missing_attributes_core_only(llm_data) ==
    SelectSeq(<<"description", "group", "item_year">>,
              LAMBDA attr : ~Truthy(Get(llm_data, attr)))

\* _identify_missing_attributes: the missing core attributes in order, then
\* the two enhancement attributes.
identify_missing_attributes(llm_data) ==
    SelectSeq(<<"description", "group", "item_year">>,
              LAMBDA attr : ~Truthy(Get(llm_data, attr)))
        \o <<"reference_url", "image_url">>

SeqRange(q) == {q[i] : i \in 1..Len(q)}

\* Keys of a collaborator mapping in the order they are listed.
FieldOrder ==
    <<"description", "group", "item_year", "item_year_to", "reference_url", "image_url">>

KeyList(d) == SelectSeq(FieldOrder, LAMBDA k : k \in DOMAIN d)

\* Faulty variant of _research_with_web: what the collaborator found is
\* passed on without the filter on the missing attributes.
research_with_web_unfiltered(web, llm_data) ==
    IF web.available /\ ~web.raises
         /\ "success" \in DOMAIN web.result /\ web.result.success
    THEN LET web_metadata ==
                 IF "metadata" \in DOMAIN web.result
                 THEN web.result.metadata ELSE EmptyDict
         IN [web_confidence |-> WEB_CONFIDENCE,
             web_data |-> web_metadata,
             web_method |-> "wikipedia_enhancement",
             missing_attributes_found |-> KeyList(web_metadata)]
    ELSE [web_confidence |-> 0, web_data |-> EmptyDict,
          web_error |-> "Wikipedia search failed"]

\* _research_with_web.  web is the web collaborator as this call finds it:
\* available (_service_available), raises/error (search_wikipedia_metadata
\* raising) and result (the dict it returns).
research_with_web(web, llm_data) ==
    IF ~web.available
    THEN [web_confidence |-> 0, web_data |-> EmptyDict,
          web_error |-> "Firecrawl not available"]
    ELSE LET missing_attributes == identify_missing_attributes(llm_data)
         IN IF missing_attributes = <<>>
            THEN [web_confidence |-> 0, web_data |-> EmptyDict,
                  web_info |-> "No missing attributes"]
            ELSE IF web.raises
            THEN [web_confidence |-> 0, web_data |-> EmptyDict,
                  web_error |-> web.error]
            ELSE IF ~("success" \in DOMAIN web.result /\ web.result.success)
            THEN [web_confidence |-> 0, web_data |-> EmptyDict,
                  web_error |-> IF "error" \in DOMAIN web.result
                                THEN web.result.error
                                ELSE "Wikipedia search failed"]
            ELSE LET web_metadata ==
                         IF "metadata" \in DOMAIN web.result
                         THEN web.result.metadata ELSE EmptyDict
                     kept == {k \in DOMAIN web_metadata :
                                 /\ k \in SeqRange(missing_attributes)
                                 /\ web_metadata[k] # None}
                     filtered == [k \in kept |-> web_metadata[k]]
                     top_ref == IF "reference_url" \in DOMAIN web.result
                                THEN web.result.reference_url ELSE None
                     filtered_metadata ==
                         IF Truthy(top_ref)
                         THEN Put(filtered, "reference_url", top_ref)
                         ELSE filtered
                 IN [web_confidence |-> WEB_CONFIDENCE,
                     web_data |-> filtered_metadata,
                     web_method |-> "wikipedia_enhancement",
                     missing_attributes_found |->
                         KeyList(filtered)
                           \o (IF Truthy(top_ref) /\ "reference_url" \notin kept
                               THEN <<"reference_url">> ELSE <<>>)]

\* Calls of llm_client.research_metadata made by one _research_with_llm.
\* Faulty variant: a raising call is tried once more.
llm_invocations_with_retry(llm) ==
    IF ~llm.available THEN 0 ELSE IF llm.raises THEN 2 ELSE 1

llm_invocations(llm) == IF llm.available THEN 1 ELSE 0

\* Calls of web_service.search_wikipedia_metadata made by one
\* _research_with_web.
web_invocations(web, llm_data) ==
    IF web.available /\ identify_missing_attributes(llm_data) # <<>> THEN 1 ELSE 0

\* a or b
PyOr(a, b) == IF Truthy(a) THEN a ELSE b

\* llm_confidence of the fused result.
\* Faulty variant: the bonus is added whenever the web stage answered, also when it
\* contributed no field.
\* Faulty variant: the web stage's confidence stands in for a lower LLM one.
combined_confidence_of_either_stage(llm_confidence, web_confidence, web_data) ==
    IF web_confidence > 0 /\ web_data # EmptyDict
    THEN Min2((IF llm_confidence > web_confidence THEN llm_confidence
               ELSE web_confidence) + WEB_BONUS, CONFIDENCE_CAP)
    ELSE llm_confidence

combined_confidence_without_data(llm_confidence, web_confidence, web_data) ==
    IF web_confidence > 0
    THEN Min2(llm_confidence + WEB_BONUS, CONFIDENCE_CAP)
    ELSE llm_confidence

combined_confidence(llm_confidence, web_confidence, web_data) ==
    IF web_confidence > 0 /\ web_data # EmptyDict
    THEN Min2(llm_confidence + WEB_BONUS, CONFIDENCE_CAP)
    ELSE llm_confidence

\* A core field of the fused result: LLM data first, gaps filled from web data.
\* Faulty variant: the gap is not filled from the web data.
core_field_llm_only(llm_data, web_data, key) == Get(llm_data, key)

core_field(llm_data, web_data, key) == PyOr(Get(llm_data, key), Get(web_data, key))

\* A web-only attribute of the fused result.
\* Faulty variant: the attribute is read from the LLM data.
web_only_field_from_llm(llm_data, web_data, key) == Get(llm_data, key)

web_only_field(llm_data, web_data, key) == Get(web_data, key)

\* research_errors of the fused result: the LLM stage's message, then the web
\* stage's, each prefixed by its stage name.
\* Faulty variant: the web stage's message is recorded first.
stage_errors_web_first(llm_result, web_result) ==
    (IF "web_error" \in DOMAIN web_result
     THEN <<"Web: " \o web_result.web_error>> ELSE <<>>)
      \o (IF "llm_error" \in DOMAIN llm_result
          THEN <<"LLM: " \o llm_result.llm_error>> ELSE <<>>)

stage_errors(llm_result, web_result) ==
    (IF "llm_error" \in DOMAIN llm_result
     THEN <<"LLM: " \o llm_result.llm_error>> ELSE <<>>)
      \o (IF "web_error" \in DOMAIN web_result
          THEN <<"Web: " \o web_result.web_error>> ELSE <<>>)

\* _combine_research_results.
combine_research_results(llm_result, web_result) ==
    LET llm_confidence ==
            IF "llm_confidence" \in DOMAIN llm_result
            THEN llm_result.llm_confidence ELSE 0
        web_confidence ==
            IF "web_confidence" \in DOMAIN web_result
            THEN web_result.web_confidence ELSE 0
        llm_data == IF "llm_data" \in DOMAIN llm_result
                    THEN llm_result.llm_data ELSE EmptyDict
        web_data == IF "web_data" \in DOMAIN web_result
                    THEN web_result.web_data ELSE EmptyDict
    IN [description |-> core_field(llm_data, web_data, "description"),
        group |-> core_field(llm_data, web_data, "group"),
        item_year |-> core_field(llm_data, web_data, "item_year"),
        item_year_to |-> core_field(llm_data, web_data, "item_year_to"),
        reference_url |-> web_only_field(llm_data, web_data, "reference_url"),
        image_url |-> web_only_field(llm_data, web_data, "image_url"),
        llm_confidence |-> combined_confidence(llm_confidence, web_confidence, web_data),
        web_sources_found |-> IF web_confidence > 0 THEN 1 ELSE 0,
        research_method |-> "llm_primary_web_enhancement",
        research_errors |-> stage_errors(llm_result, web_result),
        primary_source |-> "llm_training_data",
        enhancement_source |-> IF web_data # EmptyDict THEN "wikipedia" ELSE "None",
        missing_attributes_filled |->
            IF "missing_attributes_found" \in DOMAIN web_result
            THEN web_result.missing_attributes_found ELSE <<>>]

\* The result research_item_metadata returns from its except branch.
\* Faulty variant: the fault is hidden behind an empty result of the usual method.
failed_result_unreported(message, research_depth) ==
    [description |-> None, group |-> None, item_year |-> None,
     reference_url |-> None, image_url |-> None,
     llm_confidence |-> 0, web_sources_found |-> 0,
     research_method |-> "llm_primary_web_enhancement",
     research_errors |-> <<>>,
     research_depth |-> research_depth]

failed_result(message, research_depth) ==
    [description |-> None, group |-> None, item_year |-> None,
     reference_url |-> None, image_url |-> None,
     llm_confidence |-> 0, web_sources_found |-> 0,
     research_method |-> "failed",
     research_errors |-> <<message>>,
     research_depth |-> research_depth]

(***************************************************************************)
(* Request handler: duplicate gate, research, auto-create policy           *)
(***************************************************************************)
AUTO_CREATE_THRESHOLD == 70

ITEM_YEAR_GE == 1800

ITEM_YEAR_LE == 2030

\* Rows one (name, category, subcategory) triple may reach in the catalog.
MaxRows == 2

VARIABLES
    pc,                 \* where the request in flight stands
    request,            \* ItemResearchRequest
    duplicate_info,     \* DuplicateInfo of the request
    llm,                \* the LLM collaborator as the research call found it
    llm_result,         \* what _research_with_llm returned
    web,                \* the web collaborator as the research call found it
    web_result,         \* what _research_with_web returned
    research_result,    \* what the service's research_item_metadata returned
    response,           \* ItemResearchResponse
    catalog,            \* rows of the items table, counted per triple
    inserted,           \* the row this request handed to the catalog insert
    calls,              \* collaborator invocations of the request in flight
    previous,           \* an earlier call of the research service: its inputs and result
    handlers,           \* requests handled concurrently, each with its own locals
    updater             \* WikiDBUpdater of src/scripts/new.py: the response it works on

vars == <<pc, request, duplicate_info, llm, llm_result, web, web_result,
          research_result, response, catalog, inserted, calls,
          now, previous, handlers, updater>>

\* What no step of the single request in flight changes.
outside_request == <<now, previous, handlers, updater>>

\* The triples requests are made for: one whose subcategory has a controlled
\* vocabulary and one whose subcategory has none.
Triples ==
    { [name |-> "Hades", category |-> "games", subcategory |-> "video_games"],
      [name |-> "Lionel Messi", category |-> "sports", subcategory |-> "football"] }

DuplicateActions == {"reject", "allow"}

Requests ==
    { [name |-> t.name, category |-> t.category, subcategory |-> t.subcategory,
       auto_create |-> ac, allow_duplicate |-> ad, duplicate_action |-> da,
       research_depth |-> "standard"] :
         t \in Triples, ac \in BOOLEAN, ad \in BOOLEAN, da \in DuplicateActions }

TripleOf(req) ==
    [name |-> req.name, category |-> req.category, subcategory |-> req.subcategory]

\* A key the producer leaves out of its mapping.
Absent == [t |-> "absent", s |-> <<>>, n |-> 0]

\* The mapping holding the given fields, without those left out.
Mapping(all) == [k \in {x \in DOMAIN all : all[x] # Absent} |-> all[k]]

LlmRef == Str(<<"l", "l", "m", "/", "r", "e", "f">>)

LlmImg == Str(<<"l", "l", "m", "/", "i", "m", "g">>)

WebRef == Str(<<"w", "e", "b", "/", "r", "e", "f">>)

WebPageRef == Str(<<"w", "e", "b", "/", "p", "a", "g", "e">>)

WebImg == Str(<<"w", "e", "b", "/", "i", "m", "g">>)

LlmDown == [available |-> FALSE, raises |-> FALSE, error |-> "", response |-> None]

LlmRaises ==
    [available |-> TRUE, raises |-> TRUE, error |-> "Groq request failed", response |-> None]

LlmReturns(r) == [available |-> TRUE, raises |-> FALSE, error |-> "", response |-> r]

\* Answers of the LLM collaborator explored for the research service.
LlmResponses ==
    { Mapping([status |-> Str(<<"s", "u", "c", "c", "e", "s", "s">>),
               description |-> d, group |-> g, item_year |-> y, item_year_to |-> yt,
               reference_url |-> u[1], image_url |-> u[2]]) :
        d \in {Absent, Str(<<>>), Text(<<"L", "L", "M">>, 600)},
        g \in {Absent, Str(<<"r", "p", "g">>),
               Str(<<"F", "C", " ", "B", "a", "r", "c", "e", "l", "o", "n", "a">>)},
        y \in {Absent, IntV(1700), Str(<<"2", "0", "1", "1">>)},
        yt \in {Absent, IntV(2015)},
        u \in {<<Absent, Absent>>, <<LlmRef, LlmImg>>} }

\* The answer the prompt asks for when the model does not know the item.
LlmFailedAnswer == [status |-> Str(<<"f", "a", "i", "l", "e", "d">>)]

LlmOutcomes ==
    {LlmDown, LlmRaises, LlmReturns(None), LlmReturns(LlmFailedAnswer)}
      \cup {LlmReturns(r) : r \in LlmResponses}

WebDown == [available |-> FALSE, raises |-> FALSE, error |-> "", result |-> EmptyDict]

WebRaises ==
    [available |-> TRUE, raises |-> TRUE, error |-> "Firecrawl timeout", result |-> EmptyDict]

WebReturns(r) == [available |-> TRUE, raises |-> FALSE, error |-> "", result |-> r]

WebFound(md, ref) ==
    IF ref = Absent THEN [success |-> TRUE, metadata |-> md]
    ELSE [success |-> TRUE, metadata |-> md, reference_url |-> ref]

\* Mappings the web collaborator finds, explored for the research service.
WebMetadata ==
    { Mapping([description |-> d, group |-> g, item_year |-> y, item_year_to |-> yt,
               reference_url |-> r, image_url |-> i]) :
        d \in {Absent, None, Text(<<"W", "E", "B">>, 700)},
        g \in {Absent, Str(<<"R", "o", "g", "u", "e", "l", "i", "k", "e">>)},
        y \in {Absent, IntV(1700), IntV(2020)},
        yt \in {Absent, IntV(2021)},
        r \in {Absent, WebPageRef},
        i \in {Absent, WebImg} }

WebOutcomes ==
    {WebDown, WebRaises,
     WebReturns([success |-> FALSE, error |-> "No Wikipedia page found"]),
     WebReturns([success |-> FALSE])}
      \cup {WebReturns(WebFound(md, ref)) : md \in WebMetadata, ref \in {Absent, WebRef}}

\* Answers explored for the request handler, whose policy reads the research
\* result's confidence and the create path its fields.
HandlerLlmOutcomes ==
    { LlmDown, LlmRaises,
      LlmReturns(Mapping([description |-> Text(<<"L", "L", "M">>, 600),
                          group |-> Str(<<"r", "p", "g">>),
                          item_year |-> IntV(2011), item_year_to |-> IntV(2015),
                          reference_url |-> LlmRef, image_url |-> LlmImg])),
      LlmReturns(Mapping([description |-> Text(<<"L", "L", "M">>, 600),
                          group |-> Absent, item_year |-> Absent,
                          item_year_to |-> Absent,
                          reference_url |-> Absent, image_url |-> Absent])) }

HandlerWebOutcomes ==
    { WebDown,
      WebReturns([success |-> FALSE, error |-> "No Wikipedia page found"]),
      WebReturns(WebFound(EmptyDict, Absent)),
      WebReturns(WebFound(
          Mapping([description |-> Text(<<"W", "E", "B">>, 700),
                   group |-> Str(<<"R", "o", "g", "u", "e", "l", "i", "k", "e">>),
                   item_year |-> IntV(2020), item_year_to |-> Absent,
                   reference_url |-> Absent, image_url |-> WebImg]), WebRef)),
      WebReturns(WebFound(
          Mapping([description |-> Absent, group |-> Absent,
                   item_year |-> IntV(1700), item_year_to |-> Absent,
                   reference_url |-> Absent, image_url |-> Absent]), Absent)) }

NoCalls == [validate |-> 0, check_duplicates |-> 0, llm |-> 0, web |-> 0, create |-> 0]

NoDuplicateInfo == [is_duplicate |-> FALSE, duplicate_count |-> 0, exact_match |-> FALSE]

\* ItemResearchResponse with the defaults of its declaration.
DefaultResponse(req) ==
    [name |-> req.name, category |-> req.category, subcategory |-> req.subcategory,
     is_valid |-> TRUE, validation_errors |-> <<>>,
     duplicate_info |-> NoDuplicateInfo,
     description |-> None, group |-> None, item_year |-> None,
     item_year_to |-> None, reference_url |-> None, image_url |-> None,
     research_performed |-> FALSE, llm_confidence |-> 0, web_sources_found |-> 0,
     research_method |-> "none", research_errors |-> <<>>,
     item_created |-> FALSE, item_id |-> None]

Idle == [name |-> "", category |-> "", subcategory |-> "",
         auto_create |-> FALSE, allow_duplicate |-> FALSE,
         duplicate_action |-> "reject", research_depth |-> "standard"]

Unset == EmptyDict

\* No request is handled concurrently.
NoHandlers == <<>>

\* The updater has no response in hand.
NoUpdater == <<>>

Init ==
    /\ pc = "idle"
    /\ request = Idle
    /\ duplicate_info = NoDuplicateInfo
    /\ llm = Unset
    /\ llm_result = Unset
    /\ web = Unset
    /\ web_result = Unset
    /\ research_result = Unset
    /\ response = Unset
    /\ catalog = [t \in Triples |-> 0]
    /\ inserted = Unset
    /\ calls = NoCalls
    /\ now = CurrentYear
    /\ previous = Unset
    /\ handlers = NoHandlers
    /\ updater = NoUpdater

\* A request arrives.
ReceiveRequest ==
    /\ pc = "idle"
    /\ \E req \in Requests :
          /\ catalog[TripleOf(req)] < MaxRows
          /\ request' = req
    /\ pc' = "validate"
    /\ UNCHANGED <<duplicate_info, llm, llm_result, web, web_result,
                   research_result, response, catalog, inserted, calls>>
    /\ UNCHANGED outside_request

\* Step 1: validate_item_request reports the request invalid.
\* Faulty variant: the handler notes the errors and goes on to the duplicate check.
ValidationFails_without_return ==
    /\ pc = "validate"
    /\ calls' = [calls EXCEPT !.validate = @ + 1]
    /\ response' = [DefaultResponse(request) EXCEPT
                       !.is_valid = FALSE,
                       !.validation_errors = <<"Subcategory is not valid for category">>,
                       !.research_performed = FALSE]
    /\ pc' = "check_duplicates"
    /\ UNCHANGED <<request, duplicate_info, llm, llm_result, web, web_result,
                   research_result, catalog, inserted>>
    /\ UNCHANGED outside_request

ValidationFails ==
    /\ pc = "validate"
    /\ calls' = [calls EXCEPT !.validate = @ + 1]
    /\ response' = [DefaultResponse(request) EXCEPT
                       !.is_valid = FALSE,
                       !.validation_errors = <<"Subcategory is not valid for category">>,
                       !.research_performed = FALSE]
    /\ pc' = "done"
    /\ UNCHANGED <<request, duplicate_info, llm, llm_result, web, web_result,
                   research_result, catalog, inserted>>
    /\ UNCHANGED outside_request

\* Step 1: validate_item_request reports the request valid.
ValidationPasses ==
    /\ pc = "validate"
    /\ calls' = [calls EXCEPT !.validate = @ + 1]
    /\ pc' = "check_duplicates"
    /\ UNCHANGED <<request, duplicate_info, llm, llm_result, web, web_result,
                   research_result, response, catalog, inserted>>
    /\ UNCHANGED outside_request

\* Duplicate Guard: exact_match when a row of the same triple exists, and
\* is_duplicate when that or a near match by name similarity (near) exists.
check_duplicates(rows, triple, near) ==
    [is_duplicate |-> rows[triple] > 0 \/ near,
     duplicate_count |-> rows[triple] + (IF near THEN 1 ELSE 0),
     exact_match |-> rows[triple] > 0]

\* The condition of step 3, the duplicate policy.
\* Faulty variant: the gate lets a duplicate through whatever allow_duplicate says.
duplicate_blocks_never(info, req) == FALSE

duplicate_blocks(info, req) == info.is_duplicate /\ ~req.allow_duplicate

\* Steps 2 and 3: the duplicate check and the duplicate policy.
CheckDuplicates ==
    /\ pc = "check_duplicates"
    /\ calls' = [calls EXCEPT !.check_duplicates = @ + 1]
    /\ \E near \in BOOLEAN :
          LET info == check_duplicates(catalog, TripleOf(request), near)
          IN /\ duplicate_info' = info
             /\ IF duplicate_blocks(info, request)
                THEN /\ response' =
                          [DefaultResponse(request) EXCEPT
                              !.is_valid = TRUE,
                              !.duplicate_info = info,
                              !.research_performed = FALSE,
                              !.research_method = "blocked_by_duplicate",
                              !.research_errors =
                                  <<"Item already exists in database. "
                                      \o ToString(info.duplicate_count)
                                      \o " similar items found.">>]
                     /\ pc' = "done"
                ELSE /\ response' = response
                     /\ pc' = "llm"
    /\ UNCHANGED <<request, llm, llm_result, web, web_result, research_result,
                   catalog, inserted>>
    /\ UNCHANGED outside_request

\* Service step 1: the LLM stage.
ResearchWithLlm(outcomes) ==
    /\ pc = "llm"
    /\ \E o \in outcomes :
          /\ llm' = o
          /\ llm_result' = research_with_llm(o, request.category, request.subcategory)
          /\ calls' = [calls EXCEPT !.llm = @ + llm_invocations(o)]
    /\ pc' = "web"
    /\ UNCHANGED <<request, duplicate_info, web, web_result, research_result,
                   response, catalog, inserted>>
    /\ UNCHANGED outside_request

\* Service step 2: the web stage, given the LLM stage's data.
ResearchWithWeb(outcomes) ==
    /\ pc = "web"
    /\ \E o \in outcomes :
          /\ web' = o
          /\ web_result' = research_with_web(o, llm_result.llm_data)
          /\ calls' = [calls EXCEPT !.web = @ + web_invocations(o, llm_result.llm_data)]
    /\ pc' = "combine"
    /\ UNCHANGED <<request, duplicate_info, llm, llm_result, research_result,
                   response, catalog, inserted>>
    /\ UNCHANGED outside_request

\* Service step 3: fusion; the service returns.
CombineResults ==
    /\ pc = "combine"
    /\ research_result' =
           [k \in DOMAIN combine_research_results(llm_result, web_result)
                    \cup {"research_depth"} |->
               IF k = "research_depth" THEN request.research_depth
               ELSE combine_research_results(llm_result, web_result)[k]]
    /\ pc' = "researched"
    /\ UNCHANGED <<request, duplicate_info, llm, llm_result, web, web_result,
                   response, catalog, inserted, calls>>
    /\ UNCHANGED outside_request

\* Messages of the exceptions an internal fault of the service raises.
FaultMessages == {"'NoneType' object has no attribute 'get'", "internal fault"}

\* An exception escapes a step of the service and reaches its except branch;
\* the service returns the failed result.
ResearchFaults ==
    /\ pc \in {"llm", "web", "combine"}
    /\ \E message \in FaultMessages :
          research_result' = failed_result(message, request.research_depth)
    /\ pc' = "faulted"
    /\ UNCHANGED <<request, duplicate_info, llm, llm_result, web, web_result,
                   response, catalog, inserted, calls>>
    /\ UNCHANGED outside_request

\* What ItemResearchResponse(**research_result) keeps of the research result.
ResponseFields ==
    {"description", "group", "item_year", "item_year_to", "reference_url",
     "image_url", "llm_confidence", "web_sources_found", "research_method",
     "research_errors"}

ResearchResponse(req, info, research) ==
    LET base == [DefaultResponse(req) EXCEPT
                    !.is_valid = TRUE,
                    !.duplicate_info = info,
                    !.research_performed = TRUE]
    IN [k \in DOMAIN base |->
           IF k \in ResponseFields /\ k \in DOMAIN research THEN research[k]
           ELSE base[k]]

\* Step 5: the auto-create decision.
\* Faulty variant: the confidence threshold is not part of the decision.
should_auto_create_any_confidence(req, research, info) ==
    /\ req.auto_create
    /\ (~info.exact_match \/ req.duplicate_action = "allow")

\* Faulty variant: creation is decided without regard to the exact match.
should_auto_create_any_duplicate(req, research, info) ==
    /\ req.auto_create
    /\ (IF "llm_confidence" \in DOMAIN research THEN research.llm_confidence ELSE 0)
           > AUTO_CREATE_THRESHOLD

\* Faulty variant: creation is decided without regard to auto_create.
should_auto_create_unasked(req, research, info) ==
    /\ (IF "llm_confidence" \in DOMAIN research THEN research.llm_confidence ELSE 0)
           > AUTO_CREATE_THRESHOLD
    /\ (~info.exact_match \/ req.duplicate_action = "allow")

should_auto_create(req, research, info) ==
    /\ req.auto_create
    /\ (IF "llm_confidence" \in DOMAIN research THEN research.llm_confidence ELSE 0)
           > AUTO_CREATE_THRESHOLD
    /\ (~info.exact_match \/ req.duplicate_action = "allow")

AutoCreateBlocked == "Auto-creation blocked: exact duplicate found"

\* The elif of step 5.
\* Faulty variant: the message is not added.
blocked_message_never(req, info) == FALSE

blocked_message(req, info) == req.auto_create /\ info.exact_match

\* The handler takes the research result: builds the response, notes the
\* duplicates, and decides on auto-creation.
HandleResearchResult ==
    /\ pc \in {"researched", "faulted"}
    /\ LET built == ResearchResponse(request, duplicate_info, research_result)
           noted ==
               IF duplicate_info.is_duplicate
               THEN [built EXCEPT !.research_errors =
                        Append(@, "Note: " \o ToString(duplicate_info.duplicate_count)
                                    \o " similar items already exist in database")]
               ELSE built
       IN IF should_auto_create(request, research_result, duplicate_info)
          THEN /\ response' = noted
               /\ pc' = "create"
          ELSE /\ response' =
                    IF blocked_message(request, duplicate_info)
                    THEN [noted EXCEPT !.research_errors =
                             Append(@, AutoCreateBlocked)]
                    ELSE noted
               /\ pc' = "done"
    /\ UNCHANGED <<request, duplicate_info, llm, llm_result, web, web_result,
                   research_result, catalog, inserted, calls>>
    /\ UNCHANGED outside_request

\* ItemCreate as create_item_from_research fills it: the fields ItemCreate
\* declares; group and image_url are not among them.
item_create(req, research_data) ==
    [name |-> req.name, category |-> req.category, subcategory |-> req.subcategory,
     description |-> Get(research_data, "description"),
     item_year |-> Get(research_data, "item_year"),
     item_year_to |-> Get(research_data, "item_year_to"),
     reference_url |-> Get(research_data, "reference_url"),
     tags |-> <<>>, accolades |-> <<>>]

\* The field constraints of ItemBase that research data can break.
item_create_valid(row) ==
    \/ row.item_year = None
    \/ (ITEM_YEAR_GE <= row.item_year.n /\ row.item_year.n <= ITEM_YEAR_LE)

\* create_item_from_research returns the created item.
CreateItemSucceeds ==
    /\ pc = "create"
    /\ item_create_valid(item_create(request, research_result))
    /\ calls' = [calls EXCEPT !.create = @ + 1]
    /\ inserted' = item_create(request, research_result)
    /\ catalog' = [catalog EXCEPT ![TripleOf(request)] = @ + 1]
    /\ response' = [response EXCEPT
                       !.item_created = TRUE,
                       !.item_id = Str(<<"i", "d", "-">>
                                         \o NatDigits(catalog[TripleOf(request)] + 1))]
    /\ pc' = "done"
    /\ UNCHANGED <<request, duplicate_info, llm, llm_result, web, web_result,
                   research_result>>
    /\ UNCHANGED outside_request

\* create_item_from_research raises: ItemCreate rejects the data, or the
\* insert fails.
\* Faulty variant: the failure is swallowed without a research_errors entry.
CreateItemFails_unreported ==
    /\ pc = "create"
    /\ calls' = [calls EXCEPT !.create = @ + 1]
    /\ pc' = "done"
    /\ UNCHANGED <<request, duplicate_info, llm, llm_result, web, web_result,
                   research_result, response, catalog, inserted>>
    /\ UNCHANGED outside_request

CreateItemFails ==
    /\ pc = "create"
    /\ calls' = [calls EXCEPT !.create = @ + 1]
    /\ response' = [response EXCEPT !.research_errors =
                       Append(@, "Auto-creation failed: "
                                   \o (IF item_create_valid(item_create(request, research_result))
                                       THEN "Failed to create item"
                                       ELSE "validation error for ItemCreate"))]
    /\ pc' = "done"
    /\ UNCHANGED <<request, duplicate_info, llm, llm_result, web, web_result,
                   research_result, catalog, inserted>>
    /\ UNCHANGED outside_request

\* The response is returned.
Finish ==
    /\ pc = "done"
    /\ pc' = "idle"
    /\ request' = Idle
    /\ duplicate_info' = NoDuplicateInfo
    /\ llm' = Unset /\ llm_result' = Unset
    /\ web' = Unset /\ web_result' = Unset
    /\ research_result' = Unset
    /\ response' = Unset
    /\ inserted' = Unset
    /\ calls' = NoCalls
    /\ UNCHANGED catalog
    /\ UNCHANGED outside_request

Next ==
    \/ ReceiveRequest
    \/ ValidationFails
    \/ ValidationPasses
    \/ CheckDuplicates
    \/ ResearchWithLlm(HandlerLlmOutcomes)
    \/ ResearchWithWeb(HandlerWebOutcomes)
    \/ CombineResults
    \/ ResearchFaults
    \/ HandleResearchResult
    \/ CreateItemSucceeds
    \/ CreateItemFails
    \/ Finish

Spec == Init /\ [][Next]_vars

(***************************************************************************)
(* The research service alone: one call of research_item_metadata for      *)
(* every answer of the two collaborators.                                  *)
(***************************************************************************)
ResearchInit ==
    /\ pc = "llm"
    /\ request \in {r \in Requests :
                       ~r.auto_create /\ ~r.allow_duplicate
                         /\ r.duplicate_action = "reject"}
    /\ duplicate_info = NoDuplicateInfo
    /\ llm = Unset
    /\ llm_result = Unset
    /\ web = Unset
    /\ web_result = Unset
    /\ research_result = Unset
    /\ response = Unset
    /\ catalog = [t \in Triples |-> 0]
    /\ inserted = Unset
    /\ calls = NoCalls
    /\ now = CurrentYear
    /\ previous = Unset
    /\ handlers = NoHandlers
    /\ updater = NoUpdater

ResearchNext ==
    \/ ResearchWithLlm(LlmOutcomes)
    \/ ResearchWithWeb(WebOutcomes)
    \/ CombineResults
    \/ ResearchFaults

SpecResearch == ResearchInit /\ [][ResearchNext]_vars

(***************************************************************************)
(* Two invocations of the request handler run concurrently on the one      *)
(* catalog.  Each has its own locals; a handler gives way to the other at  *)
(* its awaits: the duplicate check, the research and the creation.         *)
(***************************************************************************)
Handlers == {1, 2}

HandlerIdle ==
    [pc |-> "idle", request |-> Idle, duplicate_info |-> NoDuplicateInfo,
     research_result |-> Unset, response |-> Unset]

\* Requests the concurrent handlers receive: duplicate_action at its default.
ConcurrentRequests == {r \in Requests : r.duplicate_action = "reject"}

\* Collaborator answers explored for the concurrent handlers.
ConcurrentLlmOutcomes ==
    { LlmDown,
      LlmReturns(Mapping([description |-> Text(<<"L", "L", "M">>, 600),
                          item_year |-> IntV(2011)])) }

\* research_item_metadata of the service, start to return.
research_item_metadata(req, llm_outcome, web_outcome) ==
    LET stage1 == research_with_llm(llm_outcome, req.category, req.subcategory)
        stage2 == research_with_web(web_outcome, stage1.llm_data)
        combined_result == combine_research_results(stage1, stage2)
    IN [k \in DOMAIN combined_result \cup {"research_depth"} |->
           IF k = "research_depth" THEN req.research_depth ELSE combined_result[k]]

\* create_item: whether the insert goes ahead given the rows of the catalog.
\* Variant: the insert is refused when a row of the triple exists.
insert_proceeds_if_absent(rows, triple) == rows[triple] = 0

insert_proceeds(rows, triple) == TRUE

\* Handler h receives a request and finds it valid.
HandlerReceives(h) ==
    /\ handlers[h].pc = "idle"
    /\ \E req \in ConcurrentRequests :
          /\ catalog[TripleOf(req)] < MaxRows
          /\ handlers' = [handlers EXCEPT ![h] =
                             [HandlerIdle EXCEPT !.pc = "check_duplicates",
                                                 !.request = req]]
    /\ UNCHANGED <<pc, request, duplicate_info, llm, llm_result, web, web_result,
                   research_result, response, catalog, inserted, calls,
                   now, previous, updater>>

\* Steps 2 and 3 of handler h: the duplicate check on the catalog as it is
\* now, and the duplicate policy.
HandlerChecksDuplicates(h) ==
    /\ handlers[h].pc = "check_duplicates"
    /\ LET req == handlers[h].request
           info == check_duplicates(catalog, TripleOf(req), FALSE)
       IN handlers' = [handlers EXCEPT ![h] =
              IF duplicate_blocks(info, req)
              THEN [@ EXCEPT !.duplicate_info = info,
                             !.response =
                                 [DefaultResponse(req) EXCEPT
                                     !.duplicate_info = info,
                                     !.research_method = "blocked_by_duplicate",
                                     !.research_errors =
                                         <<"Item already exists in database. "
                                             \o ToString(info.duplicate_count)
                                             \o " similar items found.">>],
                             !.pc = "done"]
              ELSE [@ EXCEPT !.duplicate_info = info, !.pc = "research"]]
    /\ UNCHANGED <<pc, request, duplicate_info, llm, llm_result, web, web_result,
                   research_result, response, catalog, inserted, calls,
                   now, previous, updater>>

\* Steps 4 and 5 of handler h up to the creation: the research, the response
\* and the auto-create decision, taken on the duplicate_info of step 2.
HandlerResearches(h) ==
    /\ handlers[h].pc = "research"
    /\ \E llm_outcome \in ConcurrentLlmOutcomes :
          LET req == handlers[h].request
              info == handlers[h].duplicate_info
              research == research_item_metadata(req, llm_outcome, WebDown)
              built == ResearchResponse(req, info, research)
              noted ==
                  IF info.is_duplicate
                  THEN [built EXCEPT !.research_errors =
                           Append(@, "Note: " \o ToString(info.duplicate_count)
                                       \o " similar items already exist in database")]
                  ELSE built
          IN handlers' = [handlers EXCEPT ![h] =
                 IF should_auto_create(req, research, info)
                 THEN [@ EXCEPT !.research_result = research,
                                !.response = noted, !.pc = "create"]
                 ELSE [@ EXCEPT !.research_result = research,
                                !.response =
                                    IF blocked_message(req, info)
                                    THEN [noted EXCEPT !.research_errors =
                                             Append(@, AutoCreateBlocked)]
                                    ELSE noted,
                                !.pc = "done"]]
    /\ UNCHANGED <<pc, request, duplicate_info, llm, llm_result, web, web_result,
                   research_result, response, catalog, inserted, calls,
                   now, previous, updater>>

\* Handler h creates the item: the row is inserted into the catalog as it is
\* now.
HandlerCreates(h) ==
    /\ handlers[h].pc = "create"
    /\ LET req == handlers[h].request
       IN /\ item_create_valid(item_create(req, handlers[h].research_result))
          /\ insert_proceeds(catalog, TripleOf(req))
          /\ catalog' = [catalog EXCEPT ![TripleOf(req)] = @ + 1]
          /\ handlers' = [handlers EXCEPT ![h] =
                 [@ EXCEPT !.response =
                               [@ EXCEPT !.item_created = TRUE,
                                         !.item_id =
                                             Str(<<"i", "d", "-">>
                                                   \o NatDigits(catalog[TripleOf(req)] + 1))],
                           !.pc = "done"]]
    /\ UNCHANGED <<pc, request, duplicate_info, llm, llm_result, web, web_result,
                   research_result, response, inserted, calls,
                   now, previous, updater>>

\* The creation of handler h raises.
HandlerCreateFails(h) ==
    /\ handlers[h].pc = "create"
    /\ handlers' = [handlers EXCEPT ![h] =
           [@ EXCEPT !.response =
                         [@ EXCEPT !.research_errors =
                             Append(@, "Auto-creation failed: Failed to create item")],
                     !.pc = "done"]]
    /\ UNCHANGED <<pc, request, duplicate_info, llm, llm_result, web, web_result,
                   research_result, response, catalog, inserted, calls,
                   now, previous, updater>>

\* Handler h returns its response.
HandlerReturns(h) ==
    /\ handlers[h].pc = "done"
    /\ handlers' = [handlers EXCEPT ![h] = HandlerIdle]
    /\ UNCHANGED <<pc, request, duplicate_info, llm, llm_result, web, web_result,
                   research_result, response, catalog, inserted, calls,
                   now, previous, updater>>

ConcurrentInit ==
    /\ pc = "idle"
    /\ request = Idle
    /\ duplicate_info = NoDuplicateInfo
    /\ llm = Unset
    /\ llm_result = Unset
    /\ web = Unset
    /\ web_result = Unset
    /\ research_result = Unset
    /\ response = Unset
    /\ catalog = [t \in Triples |-> 0]
    /\ inserted = Unset
    /\ calls = NoCalls
    /\ now = CurrentYear
    /\ previous = Unset
    /\ handlers = [h \in Handlers |-> HandlerIdle]
    /\ updater = NoUpdater

ConcurrentNext ==
    \E h \in Handlers :
        \/ HandlerReceives(h)
        \/ HandlerChecksDuplicates(h)
        \/ HandlerResearches(h)
        \/ HandlerCreates(h)
        \/ HandlerCreateFails(h)
        \/ HandlerReturns(h)

SpecConcurrent == ConcurrentInit /\ [][ConcurrentNext]_vars

(***************************************************************************)
(* The Field Validator alone: the LLM stage on raw mappings that try the   *)
(* limits of the years and the vocabularies of the groups.                 *)
(***************************************************************************)
\* Category and subcategory with a vocabulary, a subcategory without one
\* and a category without one.
ValidatorRequests ==
    { [name |-> "Item", category |-> c[1], subcategory |-> c[2],
       auto_create |-> FALSE, allow_duplicate |-> FALSE,
       duplicate_action |-> "reject", research_depth |-> "standard"] :
         c \in { <<"games", "video_games">>, <<"sports", "soccer">>,
                 <<"sports", "basketball">>, <<"sports", "football">>,
                 <<"music", "artists">>, <<"other", "misc">> } }

\* Groups an LLM answers with.
ValidatorGroups ==
    { Str(<<"r", "p", "g">>),
      Str(<<"t", "e", "a", "m">>),
      Str(<<"I", "n", "d", "i", "e", " ", "R", "o", "c", "k">>),
      Str(<<"F", "C", " ", "B", "a", "r", "c", "e", "l", "o", "n", "a">>) }

\* Years an LLM answers with: at and around both limits, as digits, as
\* text that is no number, and the float that Infinity or 1e999 parses to.
ValidatorYears ==
    { IntV(0), IntV(MinYear - 1), IntV(MinYear), IntV(2011),
      IntV(CurrentYear + YearSlack), IntV(CurrentYear + YearSlack + 1),
      Str(<<"2", "0", "1", "1">>), Str(<<"2", "0", "x", "1">>), None, Infinity }

ValidatorLlmOutcomes ==
    { LlmReturns(Mapping([description |-> d, group |-> g,
                          item_year |-> y, item_year_to |-> yt])) :
        d \in {Absent, Text(<<"L", "L", "M">>, 600)},
        g \in {Absent} \cup ValidatorGroups,
        y \in {Absent} \cup ValidatorYears,
        yt \in {Absent, IntV(MinYear - 1), IntV(2015),
                Str(<<"2", "0", "x", "1">>), Infinity} }

ValidatorInit ==
    /\ pc = "llm"
    /\ request \in ValidatorRequests
    /\ duplicate_info = NoDuplicateInfo
    /\ llm = Unset
    /\ llm_result = Unset
    /\ web = Unset
    /\ web_result = Unset
    /\ research_result = Unset
    /\ response = Unset
    /\ catalog = [t \in Triples |-> 0]
    /\ inserted = Unset
    /\ calls = NoCalls
    /\ now = CurrentYear
    /\ previous = Unset
    /\ handlers = NoHandlers
    /\ updater = NoUpdater

ValidatorNext == ResearchWithLlm(ValidatorLlmOutcomes)

SpecValidator == ValidatorInit /\ [][ValidatorNext]_vars

(***************************************************************************)
(* Two calls of research_item_metadata with the same arguments and the     *)
(* same collaborator answers; time passes between them.                    *)
(***************************************************************************)
\* Answers of the LLM collaborator explored for the two calls: years well in
\* the past and a year just beyond the validator's upper limit at first call.
TwoCallLlmOutcomes ==
    {LlmDown, LlmRaises}
      \cup { LlmReturns(Mapping([description |-> d, group |-> g, item_year |-> y])) :
                d \in {Absent, Text(<<"L", "L", "M">>, 600)},
                g \in {Absent, Str(<<"r", "p", "g">>)},
                y \in {Absent, IntV(2011), IntV(CurrentYear + YearSlack + 1)} }

\* The caller calls the service again with the same arguments; the year may
\* have turned since the first call.
CallAgain ==
    /\ pc = "researched"
    /\ previous = Unset
    /\ previous' = [request |-> request, llm |-> llm, web |-> web,
                    research_result |-> research_result]
    /\ \E year \in {now, now + 1} : now' = year
    /\ pc' = "llm"
    /\ llm' = Unset /\ llm_result' = Unset
    /\ web' = Unset /\ web_result' = Unset
    /\ research_result' = Unset
    /\ calls' = NoCalls
    /\ UNCHANGED <<request, duplicate_info, response, catalog, inserted,
                   handlers, updater>>

TwoCallsNext ==
    \/ ResearchWithLlm(IF previous = Unset THEN TwoCallLlmOutcomes ELSE {previous.llm})
    \/ ResearchWithWeb(IF previous = Unset THEN HandlerWebOutcomes ELSE {previous.web})
    \/ CombineResults
    \/ CallAgain

SpecTwoCalls == ResearchInit /\ [][TwoCallsNext]_vars

(***************************************************************************)
(* WikiDBUpdater of src/scripts/new.py: recovery of a JSON object from the *)
(* text of an LLM response.  A text is the sequence of its characters.     *)
(***************************************************************************)
WhiteSpace == {" ", "\n", "\t", "\r"}

IsSpace(c) == c \in WhiteSpace

SetMin(S) == CHOOSE x \in S : \A y \in S : x <= y

SetMax(S) == CHOOSE x \in S : \A y \in S : x >= y

\* The characters of the text at the positions kept, in their order.
KeepPositions(text, keep) ==
    LET at == [k \in 1..Cardinality(keep) |->
                  CHOOSE p \in keep : Cardinality({q \in keep : q < p}) = k - 1]
    IN [k \in 1..Cardinality(keep) |-> text[at[k]]]

\* The positions of the text that hold no white space.
Inked(text) == {i \in 1..Len(text) : ~IsSpace(text[i])}

\* str.lstrip()
LStrip(text) ==
    IF Inked(text) = {} THEN <<>> ELSE SubSeq(text, SetMin(Inked(text)), Len(text))

\* str.rstrip()
RStrip(text) ==
    IF Inked(text) = {} THEN <<>> ELSE SubSeq(text, 1, SetMax(Inked(text)))

\* str.strip()
Strip(text) == LStrip(RStrip(text))

\* The text holds the pattern at position i.
StartsWith(text, i, pattern) ==
    /\ i + Len(pattern) - 1 <= Len(text)
    /\ SubSeq(text, i, i + Len(pattern) - 1) = pattern

\* The grave accent, which a string of this language cannot hold, by its name.
Backtick == "GRAVE ACCENT"

Fence == <<Backtick, Backtick, Backtick>>

FenceJson == Fence \o <<"j", "s", "o", "n">>

\* The first re.sub: every opening fence with the white space after it goes.
remove_fence_open(text) ==
    LET starts == {i \in 1..Len(text) : StartsWith(text, i, FenceJson)}
        matched == {p \in 1..Len(text) :
                       \E i \in starts :
                           /\ i <= p
                           /\ \A q \in (i + Len(FenceJson))..p : IsSpace(text[q])}
    IN KeepPositions(text, (1..Len(text)) \ matched)

\* The second re.sub: a closing fence with only white space after it goes.
remove_fence_close(text) ==
    LET at == {i \in 1..Len(text) :
                  /\ StartsWith(text, i, Fence)
                  /\ \A j \in (i + Len(Fence))..Len(text) : IsSpace(text[j])}
    IN IF at = {} THEN text ELSE SubSeq(text, 1, SetMin(at) - 1)

\* text.split('\n'): line k runs from after the newline before it to before
\* the newline after it.
Split(text) ==
    LET breaks == {i \in 1..Len(text) : text[i] = "\n"}
        from(k) == IF k = 1 THEN 1
                   ELSE 1 + (CHOOSE b \in breaks :
                                Cardinality({c \in breaks : c < b}) = k - 2)
        upto(k) == IF k = Cardinality(breaks) + 1 THEN Len(text)
                   ELSE (CHOOSE b \in breaks :
                            Cardinality({c \in breaks : c < b}) = k - 1) - 1
    IN [k \in 1..(Cardinality(breaks) + 1) |-> SubSeq(text, from(k), upto(k))]

\* '\n'.join(lines)
RECURSIVE Join(_)
Join(lines) ==
    IF lines = <<>> THEN <<>>
    ELSE IF Len(lines) = 1 THEN lines[1]
    ELSE lines[1] \o <<"\n">> \o Join(Tail(lines))

\* re.search(r'(?<!:)//.*$', line): where the match starts, 0 for no match.
comment_match(line) ==
    LET at == {i \in 1..(Len(line) - 1) :
                  /\ line[i] = "/" /\ line[i + 1] = "/"
                  /\ (i = 1 \/ line[i - 1] # ":")}
    IN IF at = {} THEN 0 ELSE SetMin(at)

\* re.sub(r',\s*$', '', line)
remove_comma_at_end(line) ==
    LET at == {i \in 1..Len(line) :
                  /\ line[i] = ","
                  /\ \A j \in (i + 1)..Len(line) : IsSpace(line[j])}
    IN IF at = {} THEN line ELSE SubSeq(line, 1, SetMin(at) - 1)

\* The body of the loop over the lines.
clean_line(line) ==
    IF comment_match(line) = 0 THEN line
    ELSE remove_comma_at_end(RStrip(SubSeq(line, 1, comment_match(line) - 1)))

\* The comma at i is followed by white space and a closing brace or bracket.
BeforeCloser(text, i) ==
    \E k \in (i + 1)..Len(text) :
        /\ text[k] \in {"}", "]"}
        /\ \A j \in (i + 1)..(k - 1) : IsSpace(text[j])

\* re.sub(r',(\s*[}\]])', r'\1', text)
remove_commas_before_closers(text) ==
    KeepPositions(text, {i \in 1..Len(text) :
                            ~(text[i] = "," /\ BeforeCloser(text, i))})

\* clean_json_response
clean_json_response(text) ==
    LET stripped == Strip(remove_fence_close(remove_fence_open(text)))
        lines == Split(stripped)
        cleaned_lines == [i \in 1..Len(lines) |-> clean_line(lines[i])]
        cleaned_text == remove_commas_before_closers(Join(cleaned_lines))
    IN Strip(cleaned_text)

(***************************************************************************)
(* json.loads on the texts of this model: an object of string keys whose   *)
(* values are strings without escapes or unsigned integers.  A result is   *)
(* [ok, value, next]: whether the piece parsed, what it is, and where the  *)
(* rest begins; ok = FALSE stands for JSONDecodeError.                     *)
(***************************************************************************)
NoParse == [ok |-> FALSE, value |-> None, next |-> 0]

\* The first position from i on that holds no white space, or the end.
SkipSpace(text, i) ==
    SetMin({j \in i..(Len(text) + 1) : j > Len(text) \/ ~IsSpace(text[j])}
             \cup {Len(text) + 1})

\* A string: from the quote at i to the next quote, with no control
\* character in between.
ParseString(text, i) ==
    IF i > Len(text) \/ text[i] # "\"" THEN NoParse
    ELSE LET closes == {j \in (i + 1)..Len(text) : text[j] = "\""}
         IN IF closes = {} THEN NoParse
            ELSE LET chars == SubSeq(text, i + 1, SetMin(closes) - 1)
                 IN IF \E k \in 1..Len(chars) : chars[k] \in {"\n", "\t", "\r", "\\"}
                    THEN NoParse
                    ELSE [ok |-> TRUE, value |-> Str(chars), next |-> SetMin(closes) + 1]

\* An unsigned integer: the digits from i on, without a leading zero.
ParseNumber(text, i) ==
    LET stops == {j \in i..(Len(text) + 1) : j > Len(text) \/ ~IsDigit(text[j])}
        digits == SubSeq(text, i, SetMin(stops) - 1)
    IN IF i > Len(text) \/ digits = <<>> \/ (Len(digits) > 1 /\ digits[1] = "0")
       THEN NoParse
       ELSE [ok |-> TRUE, value |-> IntV(DecimalValue(digits)), next |-> SetMin(stops)]

ParseValue(text, i) ==
    IF i <= Len(text) /\ text[i] = "\"" THEN ParseString(text, i)
    ELSE ParseNumber(text, i)

\* The members of an object from i on, up to and with its closing brace.
RECURSIVE ParseMembers(_, _, _)
ParseMembers(text, i, members) ==
    LET key == ParseString(text, SkipSpace(text, i))
        colon == SkipSpace(text, key.next)
        val == ParseValue(text, SkipSpace(text, colon + 1))
        after == SkipSpace(text, val.next)
    IN IF ~key.ok THEN NoParse
       ELSE IF colon > Len(text) \/ text[colon] # ":" THEN NoParse
       ELSE IF ~val.ok THEN NoParse
       ELSE IF after > Len(text) THEN NoParse
       ELSE IF text[after] = ","
       THEN ParseMembers(text, after + 1, Put(members, key.value.s, val.value))
       ELSE IF text[after] = "}"
       THEN [ok |-> TRUE, value |-> Put(members, key.value.s, val.value),
             next |-> after + 1]
       ELSE NoParse

\* json.loads(text): [ok, data].
json_loads(text) ==
    LET open == SkipSpace(text, 1)
        first == SkipSpace(text, open + 1)
        object ==
            IF open > Len(text) \/ text[open] # "{" THEN NoParse
            ELSE IF first <= Len(text) /\ text[first] = "}"
            THEN [ok |-> TRUE, value |-> EmptyDict, next |-> first + 1]
            ELSE ParseMembers(text, first, EmptyDict)
    IN IF object.ok /\ SkipSpace(text, object.next) > Len(text)
       THEN [ok |-> TRUE, data |-> object.value]
       ELSE [ok |-> FALSE, data |-> EmptyDict]

(***************************************************************************)
(* Method 2 of extract_json_from_response: the scan for blocks.            *)
(***************************************************************************)
\* brace_count after the character at i has been scanned.
brace_count(text, i) ==
    Cardinality({j \in 1..i : text[j] = "{"})
      - Cardinality({j \in 1..i : text[j] = "}"})

\* The positions where the scan sets start_pos: an opening brace met with
\* brace_count at 0.
block_starts(text) ==
    {p \in 1..Len(text) : text[p] = "{" /\ brace_count(text, p - 1) = 0}

\* The positions from start_pos on where brace_count is back at 0.
block_ends(text, p) == {i \in (p + 1)..Len(text) : brace_count(text, i) = 0}

\* json_blocks as <<start_pos, i>> pairs: the scan appends
\* cleaned_text[start_pos:i+1] at the first closing brace after start_pos
\* that brings brace_count back to 0.
json_blocks(text) ==
    {<<p, SetMin(block_ends(text, p))>> :
        p \in {q \in block_starts(text) : block_ends(text, q) # {}}}

\* The loop body for one block: commas before closers go, then json.loads.
parse_block(text, b) ==
    json_loads(remove_commas_before_closers(SubSeq(text, b[1], b[2])))

\* The faulty variant: the block that parses last in the text is returned.
parse_blocks_last(text) ==
    LET parsing == {b \in json_blocks(text) : parse_block(text, b).ok}
    IN IF parsing = {} THEN [ok |-> FALSE, data |-> EmptyDict]
       ELSE parse_block(text, CHOOSE b \in parsing : \A c \in parsing : c[1] <= b[1])

\* The loop over json_blocks: the first block that parses is returned.
parse_blocks(text) ==
    LET parsing == {b \in json_blocks(text) : parse_block(text, b).ok}
    IN IF parsing = {} THEN [ok |-> FALSE, data |-> EmptyDict]
       ELSE parse_block(text, CHOOSE b \in parsing : \A c \in parsing : b[1] <= c[1])

(***************************************************************************)
(* Method 3: manual_json_extraction.                                       *)
(***************************************************************************)
KeyYearTo == <<"i", "t", "e", "m", "_", "y", "e", "a", "r", "_", "t", "o">>

KeyImageUrl == <<"i", "m", "a", "g", "e", "_", "u", "r", "l">>

KeyDescription == <<"d", "e", "s", "c", "r", "i", "p", "t", "i", "o", "n">>

KeyStatus == <<"s", "t", "a", "t", "u", "s">>

KeyGroup == <<"g", "r", "o", "u", "p">>

KeyYear == <<"i", "t", "e", "m", "_", "y", "e", "a", "r">>

KeyUrl == <<"r", "e", "f", "e", "r", "e", "n", "c", "e", "_", "u", "r", "l">>

\* The keys of patterns.
patterns == {KeyStatus, KeyYear, KeyYearTo, KeyUrl, KeyImageUrl, KeyGroup,
             KeyDescription}

\* The pattern of a key, "key":\s*"([^"]*)" without regard to case, tried
\* at position i: [ok, group], group being the characters between the
\* quotes of the value.
pattern_at(text, key, i) ==
    LET head == <<"\"">> \o key \o <<"\"", ":">>
        open == SkipSpace(text, i + Len(head))
        closes == {j \in (open + 1)..Len(text) : text[j] = "\""}
    IN IF /\ i + Len(head) - 1 <= Len(text)
          /\ Lower(SubSeq(text, i, i + Len(head) - 1)) = head
          /\ open <= Len(text)
          /\ text[open] = "\""
          /\ closes # {}
       THEN [ok |-> TRUE, group |-> SubSeq(text, open + 1, SetMin(closes) - 1)]
       ELSE [ok |-> FALSE, group |-> <<>>]

\* re.search(pattern, text, re.IGNORECASE): the leftmost match.
pattern_search(text, key) ==
    LET at == {i \in 1..Len(text) : pattern_at(text, key, i).ok}
    IN IF at = {} THEN [ok |-> FALSE, group |-> <<>>]
       ELSE pattern_at(text, key, SetMin(at))

\* The data the loop over patterns collects.
manual_data(text) ==
    [key \in {k \in patterns : pattern_search(text, k).ok} |->
        Str(pattern_search(text, key).group)]

\* manual_json_extraction: [ok, data], ok = FALSE standing for None.
manual_json_extraction(text) ==
    IF KeyStatus \in DOMAIN manual_data(text)
    THEN [ok |-> TRUE, data |-> manual_data(text)]
    ELSE [ok |-> FALSE, data |-> EmptyDict]

(***************************************************************************)
(* The responses explored: an object written one member a line, with or    *)
(* without a // comment after one of its values, a comma after its last    *)
(* member, and a markdown fence around it.                                 *)
(***************************************************************************)
\* A member as the response writes it: its key, its value, the value's text.
Member(key, value) ==
    [key |-> key, value |-> value,
     text |-> IF value.t = "int" THEN NatDigits(value.n)
              ELSE <<"\"">> \o value.s \o <<"\"">>]

\* The objects an LLM means to write.
WrittenObjects ==
    { <<Member(KeyStatus, Str(<<"s", "u", "c", "c", "e", "s", "s">>)),
        Member(KeyGroup, Str(<<"r", "p", "g">>)),
        Member(KeyYear, IntV(2011))>>,
      <<Member(KeyStatus, Str(<<"s", "u", "c", "c", "e", "s", "s">>)),
        Member(KeyUrl, Str(<<"h", "t", "t", "p", "s", ":", "/", "/", "x", ".", "i", "o", "/", "h">>)),
        Member(KeyGroup, Str(<<"r", "p", "g">>))>>,
      <<Member(KeyGroup, Str(<<"r", "p", "g">>)),
        Member(KeyYear, IntV(2011))>> }

Comment == <<" ", "/", "/", " ", "g", "e", "n", "r", "e", " ", "c", "o", "m", "m", "e", "n", "t">>

\* The line of member i of the object: the comma after it if it is not the
\* last member or a trailing comma is written, then the comment if the
\* comment stands on this line.
MemberLine(object, i, commented, trailing_comma) ==
    <<" ", " ", "\"">> \o object[i].key \o <<"\"", ":", " ">> \o object[i].text
      \o (IF i < Len(object) \/ trailing_comma THEN <<",">> ELSE <<>>)
      \o (IF i = commented THEN Comment ELSE <<>>)
      \o <<"\n">>

RECURSIVE MemberLines(_, _, _, _)
MemberLines(object, i, commented, trailing_comma) ==
    IF i > Len(object) THEN <<>>
    ELSE MemberLine(object, i, commented, trailing_comma)
           \o MemberLines(object, i + 1, commented, trailing_comma)

\* The text of a response.
ResponseText(object, commented, trailing_comma, fenced) ==
    (IF fenced THEN FenceJson \o <<"\n">> ELSE <<>>)
      \o <<"{", "\n">>
      \o MemberLines(object, 1, commented, trailing_comma)
      \o <<"}">>
      \o (IF fenced THEN <<"\n">> \o Fence ELSE <<>>)

\* The mapping an object stands for.
RECURSIVE IntendedMapping(_)
IntendedMapping(object) ==
    IF object = <<>> THEN EmptyDict
    ELSE Put(IntendedMapping(SubSeq(object, 1, Len(object) - 1)),
             object[Len(object)].key, object[Len(object)].value)

\* What a response writes before the object: nothing, a sentence, a block
\* that is no JSON, or an object of its own.
NoPreface == <<>>

Prefaces ==
    { NoPreface,
      <<"H", "e", "r", "e", ":", " ">>,
      <<"{", "n", "o", "t", "e", "}", " ">>,
      <<"{", "\"", "s", "t", "a", "t", "u", "s", "\"", ":", " ",
        "\"", "f", "a", "i", "l", "e", "d", "\"", "}", " ">> }

\* A response handed to extract_json_from_response; commented is the member
\* the comment follows, 0 for none; methods are the methods tried so far.
Responses ==
    { [pc |-> "response",
       object |-> o, commented |-> c, trailing_comma |-> tc, fenced |-> f,
       preface |-> p,
       response_text |-> p \o ResponseText(o, c, tc, f),
       cleaned_text |-> <<>>,
       methods |-> <<>>,
       data |-> None] :
         o \in WrittenObjects, c \in 0..3, tc \in BOOLEAN, f \in BOOLEAN,
         p \in Prefaces }

UpdaterInit ==
    /\ pc = "idle"
    /\ request = Idle
    /\ duplicate_info = NoDuplicateInfo
    /\ llm = Unset
    /\ llm_result = Unset
    /\ web = Unset
    /\ web_result = Unset
    /\ research_result = Unset
    /\ response = Unset
    /\ catalog = [t \in Triples |-> 0]
    /\ inserted = Unset
    /\ calls = NoCalls
    /\ now = CurrentYear
    /\ previous = Unset
    /\ handlers = NoHandlers
    /\ updater \in {r \in Responses : r.commented <= Len(r.object)}

\* extract_json_from_response cleans the response.
CleanResponse ==
    /\ updater.pc = "response"
    /\ updater' = [updater EXCEPT
                      !.cleaned_text = clean_json_response(updater.response_text),
                      !.pc = "cleaned"]
    /\ UNCHANGED <<pc, request, duplicate_info, llm, llm_result, web, web_result,
                   research_result, response, catalog, inserted, calls,
                   now, previous, handlers>>

\* Method 1: the cleaned text is parsed directly.
DirectParse ==
    /\ updater.pc = "cleaned"
    /\ updater' = [updater EXCEPT
                      !.data = IF json_loads(updater.cleaned_text).ok
                               THEN json_loads(updater.cleaned_text).data
                               ELSE None,
                      !.methods = Append(updater.methods, "direct"),
                      !.pc = IF json_loads(updater.cleaned_text).ok
                             THEN "parsed" ELSE "direct_parse_failed"]
    /\ UNCHANGED <<pc, request, duplicate_info, llm, llm_result, web, web_result,
                   research_result, response, catalog, inserted, calls,
                   now, previous, handlers>>

\* Method 2: the blocks of the cleaned text are parsed one after another.
ParseBlocks ==
    /\ updater.pc = "direct_parse_failed"
    /\ updater' = [updater EXCEPT
                      !.data = IF parse_blocks(updater.cleaned_text).ok
                               THEN parse_blocks(updater.cleaned_text).data
                               ELSE None,
                      !.methods = Append(updater.methods, "blocks"),
                      !.pc = IF parse_blocks(updater.cleaned_text).ok
                             THEN "block_parsed" ELSE "block_parse_failed"]
    /\ UNCHANGED <<pc, request, duplicate_info, llm, llm_result, web, web_result,
                   research_result, response, catalog, inserted, calls,
                   now, previous, handlers>>

\* Method 3: what manual_json_extraction gives is returned.
ManualExtraction ==
    /\ updater.pc = "block_parse_failed"
    /\ updater' = [updater EXCEPT
                      !.data = IF manual_json_extraction(updater.cleaned_text).ok
                               THEN manual_json_extraction(updater.cleaned_text).data
                               ELSE None,
                      !.methods = Append(updater.methods, "manual"),
                      !.pc = IF manual_json_extraction(updater.cleaned_text).ok
                             THEN "extracted" ELSE "no_data"]
    /\ UNCHANGED <<pc, request, duplicate_info, llm, llm_result, web, web_result,
                   research_result, response, catalog, inserted, calls,
                   now, previous, handlers>>

\* Any other exception on the way is caught by the outer except, which
\* returns None.
ExtractionFaults ==
    /\ updater.pc \in {"response", "cleaned", "direct_parse_failed",
                       "block_parse_failed"}
    /\ updater' = [updater EXCEPT !.data = None, !.pc = "fault_caught"]
    /\ UNCHANGED <<pc, request, duplicate_info, llm, llm_result, web, web_result,
                   research_result, response, catalog, inserted, calls,
                   now, previous, handlers>>

UpdaterNext ==
    \/ CleanResponse
    \/ DirectParse
    \/ ParseBlocks
    \/ ManualExtraction
    \/ ExtractionFaults

SpecUpdater == UpdaterInit /\ [][UpdaterNext]_vars

(***************************************************************************)
(* WikiDBUpdater.process_item of src/scripts/new.py: one item of the batch *)
(* is looked up in the items table, researched, and updated or created.    *)
(* A row and the research data are mappings from column names to values.   *)
(***************************************************************************)
outside_updater ==
    <<pc, request, duplicate_info, llm, llm_result, web, web_result,
      research_result, response, catalog, inserted, calls, now, previous,
      handlers>>

\* field_mappings: the columns research data can fill.
field_mappings ==
    {"item_year", "item_year_to", "reference_url", "image_url", "group",
     "description"}

\* Faulty variant of get_columns_to_update: every researched value is
\* written, whatever the row holds.
get_columns_to_update_overwriting(existing_item, research_data) ==
    [db_field \in {f \in field_mappings :
                      f \in DOMAIN research_data /\ Truthy(research_data[f])} |->
        research_data[db_field]]

\* get_columns_to_update: the researched values of the columns the row
\* holds nothing for.
get_columns_to_update(existing_item, research_data) ==
    [db_field \in {f \in field_mappings :
                      /\ f \in DOMAIN research_data
                      /\ Truthy(research_data[f])
                      /\ ~Truthy(Get(existing_item, f))} |->
        research_data[db_field]]

\* item_data of create_new_item: the columns of the new row, those holding
\* None or the empty string removed.
new_item_data(name, research_data) ==
    LET item_data ==
            [k \in field_mappings \cup {"name", "category", "subcategory",
                                        "view_count", "selection_count"} |->
                CASE k = "name" -> Str(name)
                  [] k = "category" -> Str(<<"g", "a", "m", "e", "s">>)
                  [] k = "subcategory" -> Str(<<>>)
                  [] k \in {"view_count", "selection_count"} -> IntV(0)
                  [] k = "description" ->
                        IF "description" \in DOMAIN research_data
                        THEN research_data["description"] ELSE Str(<<>>)
                  [] OTHER -> Get(research_data, k)]
    IN [k \in {x \in DOMAIN item_data :
                  item_data[x] # None /\ item_data[x] # Str(<<>>)} |->
           item_data[k]]

\* No row of the item in the table; no research data.
NoRow == None

\* The name of the item processed.
ItemName == <<"H", "a", "d", "e", "s">>

\* Rows of the item as the table may hold them: each of description, group
\* and item_year null, empty or filled.
StoredRows ==
    { [id |-> Str(<<"i", "d", "-", "1">>), name |-> Str(ItemName),
       description |-> d, group |-> g, item_year |-> y,
       item_year_to |-> None, reference_url |-> None, image_url |-> None] :
        d \in {None, Str(<<>>), Text(<<"O", "L", "D">>, 40)},
        g \in {None, Str(<<>>), Str(<<"A", "c", "t", "i", "o", "n">>)},
        y \in {None, IntV(2018)} }

\* What get_research_data returns: None, the answer for an unknown item,
\* or a mapping with a status and some of the fields, as strings or numbers.
ResearchData ==
    { None,
      [status |-> Str(<<"f", "a", "i", "l", "e", "d">>)],
      [status |-> Str(<<"f", "a", "i", "l", "e", "d">>),
       group |-> Str(<<"r", "p", "g">>)] }
      \cup { Mapping([status |-> Str(<<"s", "u", "c", "c", "e", "s", "s">>),
                      description |-> d, group |-> g, item_year |-> y,
                      image_url |-> i]) :
               d \in {Absent, Str(<<>>), Text(<<"N", "E", "W">>, 60)},
               g \in {Absent, Str(<<"r", "p", "g">>)},
               y \in {Absent, Str(<<"2", "0", "2", "0">>), IntV(2020)},
               i \in {Absent, WebImg} }

\* An item of the batch on entry to process_item: stored is the row of the
\* table when the item is processed, row the row as it is now, sent the
\* updates and inserts handed to the table, result what process_item returns.
Items ==
    { [pc |-> "process_item", stored |-> r, row |-> r, generated |-> d,
       existing_item |-> None, research_data |-> None,
       sent |-> <<>>, result |-> "none"] :
        r \in {NoRow} \cup StoredRows, d \in ResearchData }

ProcessInit ==
    /\ pc = "idle"
    /\ request = Idle
    /\ duplicate_info = NoDuplicateInfo
    /\ llm = Unset
    /\ llm_result = Unset
    /\ web = Unset
    /\ web_result = Unset
    /\ research_result = Unset
    /\ response = Unset
    /\ catalog = [t \in Triples |-> 0]
    /\ inserted = Unset
    /\ calls = NoCalls
    /\ now = CurrentYear
    /\ previous = Unset
    /\ handlers = NoHandlers
    /\ updater \in Items

\* Step 1, check_item_exists: the row of the item, or None when there is
\* none or the select raised.
CheckItemExists ==
    /\ updater.pc = "process_item"
    /\ \E select_raises \in BOOLEAN :
          updater' = [updater EXCEPT
                         !.existing_item = IF select_raises THEN None ELSE updater.row,
                         !.pc = "checked"]
    /\ UNCHANGED outside_updater

\* Step 2, get_research_data.
GetResearchData ==
    /\ updater.pc = "checked"
    /\ updater' = [updater EXCEPT !.research_data = updater.generated,
                                  !.pc = "researched"]
    /\ UNCHANGED outside_updater

\* not research_data or research_data.get('status') == 'failed'
no_research_data(research_data) ==
    \/ research_data = None
    \/ Get(research_data, "status") = Str(<<"f", "a", "i", "l", "e", "d">>)

\* process_item returns False for want of research data.
NoResearchData ==
    /\ updater.pc = "researched"
    /\ no_research_data(updater.research_data)
    /\ updater' = [updater EXCEPT !.result = "False", !.pc = "returned"]
    /\ UNCHANGED outside_updater

\* Step 3 for an item found: get_columns_to_update and update_existing_item.
\* Without updates nothing is sent; an update that returns no data or
\* raises changes nothing.
UpdateExistingItem ==
    /\ updater.pc = "researched"
    /\ ~no_research_data(updater.research_data)
    /\ updater.existing_item # None
    /\ LET updates == get_columns_to_update(updater.existing_item,
                                            updater.research_data)
       IN IF updates = EmptyDict
          THEN updater' = [updater EXCEPT !.result = "True", !.pc = "returned"]
          ELSE \E update_succeeds \in BOOLEAN :
                  updater' =
                      [updater EXCEPT
                          !.sent = Append(@, [op |-> "update", data |-> updates]),
                          !.row = IF update_succeeds
                                  THEN [k \in DOMAIN updater.row |->
                                           IF k \in DOMAIN updates THEN updates[k]
                                           ELSE updater.row[k]]
                                  ELSE updater.row,
                          !.result = IF update_succeeds THEN "True" ELSE "False",
                          !.pc = "returned"]
    /\ UNCHANGED outside_updater

\* Step 3 for an item not found: create_new_item.
CreateNewItem ==
    /\ updater.pc = "researched"
    /\ ~no_research_data(updater.research_data)
    /\ updater.existing_item = None
    /\ \E insert_succeeds \in BOOLEAN :
          updater' =
              [updater EXCEPT
                  !.sent = Append(@, [op |-> "insert",
                                      data |-> new_item_data(ItemName,
                                                             updater.research_data)]),
                  !.result = IF insert_succeeds THEN "True" ELSE "False",
                  !.pc = "returned"]
    /\ UNCHANGED outside_updater

ProcessNext ==
    \/ CheckItemExists
    \/ GetResearchData
    \/ NoResearchData
    \/ UpdateExistingItem
    \/ CreateNewItem

SpecProcessItem == ProcessInit /\ [][ProcessNext]_vars

(***************************************************************************)
(* Properties                                                              *)
(***************************************************************************)
Researched == pc = "researched"

LlmSucceeded == llm.available /\ ~llm.raises

WebContributed == web_result.web_confidence > 0 /\ DOMAIN web_result.web_data # {}

\* C1 (as claimed): llm_confidence of every research result is 0, 90 or 95:
\* 0 if the LLM stage failed, 90 if it succeeded alone, 95 if it succeeded
\* and the web stage contributed data.
C1_ConfidenceIn_0_90_95 ==
    Researched =>
        /\ research_result.llm_confidence \in {0, 90, 95}
        /\ (~LlmSucceeded => research_result.llm_confidence = 0)
        /\ (LlmSucceeded /\ ~WebContributed => research_result.llm_confidence = 90)
        /\ (LlmSucceeded /\ WebContributed => research_result.llm_confidence = 95)

CoreFields == {"description", "group", "item_year", "item_year_to"}

\* C2: each core field of the fused result is the LLM stage's value when the
\* LLM stage supplied a non-null one and the web stage's value otherwise, and
\* a non-empty LLM description, cut to 500 characters, is the result's
\* description whatever the web stage returned.
C2_LlmValueElseWebValue ==
    Researched =>
        /\ \A f \in CoreFields :
              research_result[f] =
                  IF f \in DOMAIN llm_result.llm_data /\ llm_result.llm_data[f] # None
                  THEN llm_result.llm_data[f]
                  ELSE Get(web_result.web_data, f)
        /\ (LlmSucceeded /\ IsDict(llm.response)
              /\ Truthy(Get(llm.response, "description"))
              => /\ research_result.description.s = llm.response.description.s
                 /\ research_result.description.n =
                       (IF llm.response.description.n > 500 THEN 500
                        ELSE llm.response.description.n))

\* C2 witness: the LLM supplied a description longer than 500 characters and
\* no group, and the web stage supplied both.
C2_Witness ==
    /\ Researched
    /\ LlmSucceeded /\ IsDict(llm.response)
    /\ Get(llm.response, "description").n > 500
    /\ "group" \notin DOMAIN llm_result.llm_data
    /\ web.available /\ ~web.raises /\ "metadata" \in DOMAIN web.result
    /\ Truthy(Get(web.result.metadata, "description"))
    /\ Truthy(Get(web.result.metadata, "group"))
    /\ research_result.group = web.result.metadata.group
    /\ research_result.description.n = 500

UrlFields == {"reference_url", "image_url"}

\* The values the web collaborator returned for a URL field.
WebProduced(f) ==
    IF ~(web.available /\ ~web.raises) THEN {}
    ELSE (IF "metadata" \in DOMAIN web.result /\ f \in DOMAIN web.result.metadata
          THEN {web.result.metadata[f]} ELSE {})
           \cup (IF f = "reference_url" /\ "reference_url" \in DOMAIN web.result
                 THEN {web.result.reference_url} ELSE {})

\* C3: reference_url and image_url of the result are the web stage's values
\* (null where it has none), come from what the web collaborator returned,
\* and are never the value the LLM answer carried for them.
C3_UrlsFromWebOnly ==
    Researched =>
        \A f \in UrlFields :
            /\ research_result[f] = Get(web_result.web_data, f)
            /\ research_result[f] \in {None} \cup WebProduced(f)
            /\ (LlmSucceeded /\ IsDict(llm.response) /\ f \in DOMAIN llm.response
                  => research_result[f] # llm.response[f])

\* C3 witness: the LLM answer carried both URLs and the web stage produced
\* both; the result holds the web stage's.
C3_Witness ==
    /\ Researched
    /\ LlmSucceeded /\ IsDict(llm.response)
    /\ UrlFields \subseteq DOMAIN llm.response
    /\ research_result.reference_url = WebRef
    /\ research_result.image_url = WebImg

AutoCreateMessage == "Auto-creation blocked: exact duplicate found"

Contains(q, x) == \E i \in 1..Len(q) : q[i] = x

\* The three conditions of auto-creation, on the request in flight.
AllThreeHold ==
    /\ request.auto_create
    /\ research_result # Unset
    /\ research_result.llm_confidence > 70
    /\ (~duplicate_info.exact_match \/ request.duplicate_action = "allow")

\* C4: an item is created only if auto_create is set, llm_confidence > 70 and
\* (exact_match is false or duplicate_action is allow); when one of the three
\* fails, create_item_from_research is not called, no row is inserted and
\* item_created stays false.
C4_CreateOnlyIfAllThree ==
    (pc \in {"create", "done"} /\ ~AllThreeHold) =>
        /\ pc = "done"
        /\ calls.create = 0
        /\ inserted = Unset
        /\ ~response.item_created

\* C4 witness: auto_create was requested and research done, confidence is
\* at most 70, and the request ended without a creation.
C4_Witness ==
    /\ pc = "done"
    /\ request.auto_create
    /\ response.research_performed
    /\ ~duplicate_info.exact_match
    /\ research_result.llm_confidence <= 70
    /\ ~response.item_created

\* C5: when the Duplicate Guard reports is_duplicate and allow_duplicate is
\* false, the handler returns without research: no LLM stage, no web stage,
\* no creation; research_performed is false, research_method is
\* "blocked_by_duplicate" and research_errors holds the one message.
C5_BlockedByDuplicate ==
    (duplicate_info.is_duplicate /\ ~request.allow_duplicate) =>
        /\ pc = "done"
        /\ llm = Unset /\ web = Unset /\ research_result = Unset
        /\ calls.llm = 0 /\ calls.web = 0 /\ calls.create = 0
        /\ inserted = Unset
        /\ ~response.research_performed
        /\ ~response.item_created
        /\ response.research_method = "blocked_by_duplicate"
        /\ response.research_errors =
              <<"Item already exists in database. "
                  \o ToString(duplicate_info.duplicate_count)
                  \o " similar items found.">>

\* C5 witness: a request blocked by a duplicate has returned.
C5_Witness ==
    /\ pc = "done"
    /\ duplicate_info.is_duplicate
    /\ ~request.allow_duplicate
    /\ response.research_method = "blocked_by_duplicate"

\* C6 (as claimed): with exact_match reported, auto_create set and
\* duplicate_action reject, whatever the other flags, the response has
\* item_created false, the blocked message, and research performed.
C6_Original ==
    (pc = "done" /\ response.is_valid /\ duplicate_info.exact_match
        /\ request.auto_create /\ request.duplicate_action = "reject") =>
        /\ ~response.item_created
        /\ Contains(response.research_errors, AutoCreateMessage)
        /\ response.research_performed

\* C6 (amended): with exact_match reported, auto_create set, duplicate_action
\* reject and allow_duplicate set, the response has item_created false, the
\* blocked message, and research performed.
C6_BlockedWhenAllowed ==
    (pc = "done" /\ response.is_valid /\ duplicate_info.exact_match
        /\ request.auto_create /\ request.duplicate_action = "reject"
        /\ request.allow_duplicate) =>
        /\ ~response.item_created
        /\ calls.create = 0
        /\ Contains(response.research_errors, AutoCreateMessage)
        /\ response.research_performed
        /\ research_result # Unset

\* C6 witness: such a request has returned, its research at confidence above 70.
C6_Witness ==
    /\ pc = "done"
    /\ duplicate_info.exact_match
    /\ request.auto_create /\ request.duplicate_action = "reject"
    /\ request.allow_duplicate
    /\ response.llm_confidence > 70
    /\ Contains(response.research_errors, AutoCreateMessage)

\* C7 (as claimed): the blocked message is in research_errors exactly when
\* auto_create was requested, the confidence condition held and the exact
\* duplicate with duplicate_action reject was the only failing condition.
C7_MessageOnlyForDuplicateBlock ==
    (pc = "done" /\ response.research_performed) =>
        (Contains(response.research_errors, AutoCreateMessage)
            <=> /\ request.auto_create
                /\ research_result.llm_confidence > 70
                /\ duplicate_info.exact_match
                /\ request.duplicate_action = "reject")

\* C8 (as claimed): LLM unavailable, web available and returning description,
\* group, item_year, reference_url and image_url: llm_confidence is 0,
\* web_sources_found is 1, description, group and item_year are the web
\* values, and research_errors is the one LLM-unavailable message.
C8_LlmDownWebFull ==
    (Researched /\ ~llm.available
        /\ web.available /\ ~web.raises
        /\ "success" \in DOMAIN web.result /\ web.result.success
        /\ {"description", "group", "item_year", "image_url"}
              \subseteq {k \in DOMAIN web.result.metadata :
                            Truthy(web.result.metadata[k])}
        /\ "reference_url" \in DOMAIN web.result) =>
        /\ research_result.llm_confidence = 0
        /\ research_result.web_sources_found = 1
        /\ research_result.description = web.result.metadata.description
        /\ research_result.group = web.result.metadata.group
        /\ research_result.item_year = web.result.metadata.item_year
        /\ research_result.research_errors = <<"LLM: LLM client not available">>

\* C9: llm_confidence of the result is the LLM stage's confidence plus 5,
\* capped at 95, if the web stage returned confidence > 0 and at least one
\* field, and the LLM stage's confidence unchanged in every other case.
C9_BonusIffWebContributed ==
    Researched =>
        research_result.llm_confidence =
            IF web_result.web_confidence > 0 /\ DOMAIN web_result.web_data # {}
            THEN (IF llm_result.llm_confidence + 5 > 95 THEN 95
                  ELSE llm_result.llm_confidence + 5)
            ELSE llm_result.llm_confidence

\* C9 witness: the web stage answered with confidence but no field, after an
\* LLM stage that succeeded: no bonus.
C9_Witness ==
    /\ Researched
    /\ web_result.web_confidence > 0
    /\ DOMAIN web_result.web_data = {}
    /\ llm_result.llm_confidence = 90
    /\ research_result.llm_confidence = 90

\* The Field Validator's checks on a value of the result.
PassesValidator(f, v) ==
    CASE f = "description" -> v.t = "str" /\ v.n <= 500
      [] f = "group" ->
            v.t = "str" /\ v = validate_group(v, request.category, request.subcategory)
      [] OTHER -> v.t = "int" /\ 1800 <= v.n /\ v.n <= CurrentYear + 2

\* C10 (as claimed): every non-null description, group, item_year and
\* item_year_to of a result has passed the Field Validator's checks,
\* whichever stage supplied it.
C10_ResultFieldsValidated ==
    Researched =>
        \A f \in CoreFields :
            research_result[f] # None => PassesValidator(f, research_result[f])

\* C11: the web stage is attempted after the LLM stage whatever the LLM
\* stage's outcome; a web-stage error leaves the LLM stage's data and
\* confidence in the result; research_errors holds the LLM stage's message
\* prefixed "LLM: " and then the web stage's prefixed "Web: ".
C11_StagesIndependent ==
    Researched =>
        /\ llm # Unset /\ web # Unset /\ web_result # Unset
        /\ ("web_error" \in DOMAIN web_result =>
              /\ \A f \in CoreFields :
                    research_result[f] = Get(llm_result.llm_data, f)
              /\ research_result.llm_confidence = llm_result.llm_confidence)
        /\ research_result.research_errors =
              (IF ~LlmSucceeded
               THEN <<"LLM: " \o (IF llm.available THEN llm.error
                                  ELSE "LLM client not available")>>
               ELSE <<>>)
                \o (IF "web_error" \in DOMAIN web_result
                    THEN <<"Web: " \o web_result.web_error>> ELSE <<>>)

\* C11 witness: the LLM collaborator raised, the web stage was still run and
\* its collaborator raised too; both messages are recorded, LLM first.
C11_Witness ==
    /\ Researched
    /\ llm.available /\ llm.raises
    /\ web.available /\ web.raises
    /\ calls.web = 1
    /\ research_result.research_errors =
          <<"LLM: Groq request failed", "Web: Firecrawl timeout">>

\* C11 second case: a web-stage error after an LLM stage that supplied data.
C11_WebErrorKeepsLlmData ==
    /\ Researched
    /\ web.available /\ web.raises
    /\ llm_result.llm_confidence = 90
    /\ research_result.llm_confidence = 90
    /\ Truthy(research_result.description)
    /\ research_result.research_errors = <<"Web: Firecrawl timeout">>

\* C13: when validation reports the request invalid the handler returns at
\* once with is_valid false, the validation errors and research_performed
\* false; the duplicate check, the LLM and web research and item creation are
\* not invoked for that request.
C13_InvalidReturnsAtOnce ==
    (response # Unset /\ ~response.is_valid) =>
        /\ pc = "done"
        /\ response.validation_errors # <<>>
        /\ ~response.research_performed
        /\ response.duplicate_info = NoDuplicateInfo
        /\ calls.validate = 1
        /\ calls.check_duplicates = 0
        /\ calls.llm = 0 /\ calls.web = 0 /\ calls.create = 0
        /\ llm = Unset /\ web = Unset /\ research_result = Unset
        /\ inserted = Unset
        /\ ~response.item_created

\* C13 witness: an auto_create request was found invalid and has returned.
C13_Witness ==
    /\ pc = "done"
    /\ request.auto_create
    /\ response # Unset /\ ~response.is_valid
    /\ response.validation_errors # <<>>
    /\ calls.validate = 1

\* The request in flight attempted auto-creation and create_item_from_research
\* raised.
CreateRaised == pc = "done" /\ calls.create = 1 /\ inserted = Unset

AutoCreateFailures ==
    {"Auto-creation failed: Failed to create item",
     "Auto-creation failed: validation error for ItemCreate"}

\* C14: when create_item_from_research raises, the handler still returns the
\* research response: every researched field and llm_confidence as the
\* research returned them, item_created false, item_id null, and an
\* "Auto-creation failed: ..." entry appended after the entries research_errors
\* already had.
C14_CreateFailureRecovered ==
    CreateRaised =>
        /\ response.is_valid /\ response.research_performed
        /\ \A f \in CoreFields \cup UrlFields
                      \cup {"llm_confidence", "web_sources_found", "research_method"} :
              response[f] = research_result[f]
        /\ ~response.item_created
        /\ response.item_id = None
        /\ Len(response.research_errors) >= 1
        /\ response.research_errors[Len(response.research_errors)] \in AutoCreateFailures
        /\ SubSeq(response.research_errors, 1, Len(research_result.research_errors))
              = research_result.research_errors
        /\ Len(response.research_errors) =
              Len(research_result.research_errors)
                + (IF duplicate_info.is_duplicate THEN 1 ELSE 0) + 1

\* C14 witness: the insert failed for a request whose research had filled
\* the description at confidence above 70.
C14_Witness ==
    /\ CreateRaised
    /\ response.llm_confidence > 70
    /\ Truthy(response.description)
    /\ Contains(response.research_errors, "Auto-creation failed: Failed to create item")
    /\ ~response.item_created

\* The stage's collaborator was called and the attempt failed.
LlmAttemptFailed == llm # Unset /\ llm.available /\ llm.raises

WebAttemptFailed ==
    /\ web # Unset /\ web.available
    /\ (web.raises \/ ~("success" \in DOMAIN web.result /\ web.result.success))

\* C16: in one call the LLM collaborator is invoked at most once and the web
\* collaborator at most once; after a failed attempt the collaborator is not
\* invoked again, the failure is recorded as the stage's error, and the stage
\* stands at confidence 0 with no data.
C16_NoRetry ==
    /\ calls.llm <= 1 /\ calls.web <= 1
    /\ (LlmAttemptFailed =>
          /\ calls.llm = 1
          /\ llm_result.llm_confidence = 0
          /\ llm_result.llm_data = EmptyDict
          /\ "llm_error" \in DOMAIN llm_result /\ llm_result.llm_error = llm.error)
    /\ (WebAttemptFailed =>
          /\ calls.web = 1
          /\ web_result.web_confidence = 0
          /\ web_result.web_data = EmptyDict
          /\ "web_error" \in DOMAIN web_result)
    /\ (Researched /\ LlmAttemptFailed =>
          Contains(research_result.research_errors, "LLM: " \o llm.error))
    /\ (Researched /\ WebAttemptFailed =>
          Contains(research_result.research_errors, "Web: " \o web_result.web_error))

\* C16 witness: the LLM collaborator raised on its one call, the pipeline went
\* on, and the web collaborator answered its one call with data.
C16_Witness ==
    /\ Researched
    /\ LlmAttemptFailed /\ calls.llm = 1
    /\ ~WebAttemptFailed /\ calls.web = 1
    /\ research_result.web_sources_found = 1
    /\ research_result.research_errors = <<"LLM: Groq request failed">>

\* A step of the research service: the LLM stage, the web stage or fusion.
ResearchStep == pc \in {"llm", "web", "combine"}

\* C17: no step of research_item_metadata inserts or updates a catalog row,
\* and no step taken for a request with auto_create false changes the
\* catalog or calls the creation, whatever the research outcome.
C17_ResearchDoesNotPersist ==
    [][/\ (ResearchStep => catalog' = catalog /\ inserted' = inserted)
       /\ (~request.auto_create =>
              /\ catalog' = catalog
              /\ inserted' = inserted
              /\ calls'.create = 0)]_vars

\* C17 witness: a request with auto_create false was researched at
\* confidence above 70 with no exact duplicate, and returned without creation.
C17_Witness ==
    /\ pc = "done"
    /\ ~request.auto_create
    /\ response.research_performed
    /\ response.llm_confidence > 70
    /\ ~duplicate_info.exact_match
    /\ calls.create = 0
    /\ inserted = Unset

\* C18 (as claimed): two calls of research_item_metadata with identical
\* arguments and identical collaborator availability and answers return
\* results equal field for field.
C18_SameInputsSameResult ==
    (Researched /\ previous # Unset) =>
        research_result = previous.research_result

\* The LLM collaborator was called and its answer is one the prompt's
\* contract counts as a failure: it raised, returned nothing parsed, or
\* returned status "failed".
LlmAnswerFailed ==
    /\ llm # Unset /\ llm.available
    /\ \/ llm.raises
       \/ ~IsDict(llm.response)
       \/ Get(llm.response, "status") = Str(<<"f", "a", "i", "l", "e", "d">>)

\* C19 (as claimed): with the LLM collaborator available, an answer with
\* status "failed", an answer that could not be parsed, or a raising
\* collaborator gives the LLM stage confidence 0, empty data and an error;
\* confidence 90 is returned only for an answer with status "success".
C19_ConfidenceFollowsStatus ==
    llm_result # Unset =>
        /\ (LlmAnswerFailed =>
              /\ llm_result.llm_confidence = 0
              /\ llm_result.llm_data = EmptyDict
              /\ "llm_error" \in DOMAIN llm_result)
        /\ (llm_result.llm_confidence = 90 =>
              /\ IsDict(llm.response)
              /\ Get(llm.response, "status") = Str(<<"s", "u", "c", "c", "e", "s", "s">>))

\* C15: when an exception escapes a step of research_item_metadata the
\* service still returns to its caller, with every metadata field null,
\* llm_confidence 0, web_sources_found 0, research_method "failed" and
\* research_errors holding the exception message alone; the handler goes on
\* with that result and creates nothing.
C15_FaultGivesFailedResult ==
    /\ (pc = "faulted" =>
          /\ \A f \in CoreFields \cup UrlFields : Get(research_result, f) = None
          /\ research_result.llm_confidence = 0
          /\ research_result.web_sources_found = 0
          /\ research_result.research_method = "failed"
          /\ Len(research_result.research_errors) = 1
          /\ research_result.research_errors[1] \in FaultMessages)
    /\ (research_result # Unset /\ "primary_source" \notin DOMAIN research_result
           /\ pc = "done" =>
          /\ response.research_performed
          /\ response.research_method = "failed"
          /\ response.llm_confidence = 0
          /\ \A f \in CoreFields \cup UrlFields : response[f] = None
          /\ response.research_errors[1] \in FaultMessages
          /\ calls.create = 0
          /\ ~response.item_created)

\* C15 witness: the LLM stage had supplied data at confidence 90 when a later
\* step faulted; the handler returned the failed result for an auto_create
\* request.
C15_Witness ==
    /\ pc = "done"
    /\ request.auto_create
    /\ llm_result # Unset /\ llm_result.llm_confidence = 90
    /\ response.research_method = "failed"
    /\ response.research_errors = <<"internal fault">>
    /\ response.llm_confidence = 0

\* The two handlers hold requests for the same triple, both with auto_create.
SameTripleBoth ==
    /\ handlers[1].request.auto_create /\ handlers[2].request.auto_create
    /\ TripleOf(handlers[1].request) = TripleOf(handlers[2].request)

\* C12: a handler that has passed the gate and decided to create is never
\* held back by the rows the catalog has gained since its duplicate check:
\* no lock is taken and no re-check made, so its insert stays possible
\* whatever the other handler has inserted meanwhile.
C12_NoLockNoRecheck ==
    \A h \in Handlers :
        (handlers[h].pc = "create"
           /\ item_create_valid(item_create(handlers[h].request,
                                            handlers[h].research_result)))
          => ENABLED HandlerCreates(h)

\* C12 witness: both handlers ran the duplicate check on a catalog without
\* the item, both passed the gate, both created it: two rows of one triple.
C12_Witness ==
    /\ SameTripleBoth
    /\ \A h \in Handlers :
          /\ handlers[h].pc = "done"
          /\ ~handlers[h].duplicate_info.is_duplicate
          /\ handlers[h].duplicate_info.duplicate_count = 0
          /\ handlers[h].response.item_created
    /\ catalog[TripleOf(handlers[1].request)] = 2

\* The response holds a // comment after a value and a comma before the
\* closing brace.
CommentAndTrailingComma ==
    /\ updater.commented > 0
    /\ updater.trailing_comma
    /\ updater.preface = NoPreface

\* C20 (as claimed): for a response with a // comment after a value and a
\* comma before the closing brace, clean_json_response and the direct parse
\* succeed and give the mapping the object stands for, on whichever line of
\* the object the comment stands.
C20_CleanedTextParses ==
    (updater.pc \in {"parsed", "direct_parse_failed"} /\ CommentAndTrailingComma) =>
        /\ updater.pc = "parsed"
        /\ updater.data = IntendedMapping(updater.object)

\* The blocks of the cleaned text that parse.
ParsingBlocks ==
    {b \in json_blocks(updater.cleaned_text) :
        parse_block(updater.cleaned_text, b).ok}

\* C21: extract_json_from_response ends in one of its returns, never in an
\* exception.  What it returns is the direct parse of the cleaned text when
\* that succeeds, and then no other method was tried; otherwise the parse of
\* the first block in text order that parses, and then the regex extraction
\* was not tried; otherwise the regex extraction, which succeeds only with a
\* status among its matches; otherwise, and after a caught fault, None.
C21_FirstSuccessfulStageReturns ==
    /\ updater.pc \in {"response", "cleaned", "direct_parse_failed",
                       "block_parse_failed", "parsed", "block_parsed",
                       "extracted", "no_data", "fault_caught"}
    /\ updater.pc = "parsed" =>
          /\ updater.methods = <<"direct">>
          /\ json_loads(updater.cleaned_text).ok
          /\ updater.data = json_loads(updater.cleaned_text).data
    /\ updater.pc = "block_parsed" =>
          /\ updater.methods = <<"direct", "blocks">>
          /\ ~json_loads(updater.cleaned_text).ok
          /\ \E b \in ParsingBlocks :
                /\ \A c \in ParsingBlocks : b[1] <= c[1]
                /\ updater.data = parse_block(updater.cleaned_text, b).data
    /\ updater.pc = "extracted" =>
          /\ updater.methods = <<"direct", "blocks", "manual">>
          /\ ~json_loads(updater.cleaned_text).ok
          /\ ParsingBlocks = {}
          /\ KeyStatus \in DOMAIN updater.data
          /\ updater.data = manual_data(updater.cleaned_text)
    /\ updater.pc = "no_data" =>
          /\ updater.methods = <<"direct", "blocks", "manual">>
          /\ ~json_loads(updater.cleaned_text).ok
          /\ ParsingBlocks = {}
          /\ ~pattern_search(updater.cleaned_text, KeyStatus).ok
          /\ updater.data = None
    /\ updater.pc = "fault_caught" => updater.data = None

\* C21 witness: the direct parse failed on a text with two blocks that both
\* parse, and the first of them was returned without the regex extraction.
C21_Witness ==
    /\ updater.pc = "block_parsed"
    /\ Cardinality(ParsingBlocks) = 2
    /\ updater.data = (KeyStatus :> Str(<<"f", "a", "i", "l", "e", "d">>))
    /\ updater.methods = <<"direct", "blocks">>

\* The regex extraction returned the fields it matched, a status among them.
C21_ExtractedByPatterns ==
    /\ updater.pc = "extracted"
    /\ KeyStatus \in DOMAIN updater.data
    /\ KeyGroup \in DOMAIN updater.data

\* No method succeeded and None was returned.
C21_NothingExtracted == updater.pc = "no_data" /\ updater.data = None

\* The LLM stage has returned.
LlmStageDone == pc \in {"web", "combine", "researched"}

\* The web stage has returned.
WebStageDone == pc \in {"combine", "researched"}

\* C22: the list _identify_missing_attributes computes from the LLM data
\* holds a core field exactly when the LLM data lacks it or holds a falsy
\* value for it, and holds reference_url and image_url always; so the list
\* is never empty, the web stage never returns "No missing attributes", and
\* an available web collaborator is called once.
C22_MissingAttributes ==
    /\ LlmStageDone =>
          LET missing == SeqRange(identify_missing_attributes(llm_result.llm_data))
          IN /\ \A attr \in CoreFields \ {"item_year_to"} :
                    attr \in missing <=>
                        \/ attr \notin DOMAIN llm_result.llm_data
                        \/ ~Truthy(llm_result.llm_data[attr])
             /\ "item_year_to" \notin missing
             /\ {"reference_url", "image_url"} \subseteq missing
             /\ identify_missing_attributes(llm_result.llm_data) # <<>>
    /\ WebStageDone =>
          /\ "web_info" \notin DOMAIN web_result
          /\ web.available => calls.web = 1

\* C22 witness: the LLM stage supplied description, group and item_year, and
\* the web collaborator was still called, the list holding the two URLs.
C22_Witness ==
    /\ WebStageDone
    /\ {"description", "group", "item_year"} \subseteq DOMAIN llm_result.llm_data
    /\ identify_missing_attributes(llm_result.llm_data) = <<"reference_url", "image_url">>
    /\ calls.web = 1
    /\ web_result.web_confidence = WEB_CONFIDENCE

\* The web collaborator was called and reported success.
WebLookupSucceeded ==
    /\ WebStageDone
    /\ web.available /\ ~web.raises
    /\ "success" \in DOMAIN web.result /\ web.result.success

\* The reference_url the collaborator surfaced at the top of its result.
TopReferenceUrl ==
    IF "reference_url" \in DOMAIN web.result THEN web.result.reference_url ELSE None

\* C23: after a successful web lookup every key of web_data is in the list
\* of missing attributes computed from the LLM data and holds a non-null
\* value, reference_url being the collaborator's top-level one when it
\* surfaced one; no core field the LLM stage supplied is in web_data; the
\* stage reports confidence 70 and missing_attributes_found lists exactly
\* the keys of web_data.
C23_WebDataOnlyMissing ==
    WebLookupSucceeded =>
        /\ \A k \in DOMAIN web_result.web_data :
              /\ k \in SeqRange(identify_missing_attributes(llm_result.llm_data))
              /\ web_result.web_data[k] # None
        /\ Truthy(TopReferenceUrl) =>
              /\ "reference_url" \in DOMAIN web_result.web_data
              /\ web_result.web_data["reference_url"] = TopReferenceUrl
        /\ \A k \in CoreFields :
              Truthy(Get(llm_result.llm_data, k)) =>
                  k \notin DOMAIN web_result.web_data
        /\ web_result.web_confidence = WEB_CONFIDENCE
        /\ SeqRange(web_result.missing_attributes_found) = DOMAIN web_result.web_data
        /\ Len(web_result.missing_attributes_found)
              = Cardinality(DOMAIN web_result.web_data)

\* C23 witness: the collaborator found a description and a group the LLM
\* stage had supplied, an item_year it had not, and a page reference_url
\* next to its top-level one; web_data holds the year and the top-level URL.
C23_Witness ==
    /\ WebLookupSucceeded
    /\ {"description", "group"} \subseteq DOMAIN llm_result.llm_data
    /\ {"description", "group", "item_year", "reference_url"}
           \subseteq DOMAIN web.result.metadata
    /\ web.result.metadata["description"] # None
    /\ web.result.metadata["reference_url"] = WebPageRef
    /\ TopReferenceUrl = WebRef
    /\ DOMAIN web_result.web_data = {"item_year", "reference_url"}
    /\ web_result.web_data["reference_url"] = WebRef

\* The LLM stage validated a mapping the collaborator returned.
Validated == pc = "web" /\ ~llm.raises /\ llm.available /\ IsDict(llm.response)

\* The raw value of the key is an integer or a text of digits within the
\* limits of the validator.
YearInRange(raw_metadata, key) ==
    /\ key \in DOMAIN raw_metadata
    /\ PyInt(raw_metadata[key]).ok
    /\ MinYear <= PyInt(raw_metadata[key]).n
    /\ PyInt(raw_metadata[key]).n <= now + YearSlack

\* C24 (as claimed): the validated mapping holds item_year, and likewise
\* item_year_to, only with a raw value that parses as an integer from 1800
\* to the current year plus 2, and then holds that integer; a raw year that
\* does not parse or is out of range is left out and the other fields are
\* what they are without it: a description and a group the raw mapping
\* supplies, and the other year when it is in range, are in the output.
C24_BadYearOnlyOmitted ==
    Validated =>
        /\ \A k \in {"item_year", "item_year_to"} :
              k \in DOMAIN llm_result.llm_data =>
                  /\ YearInRange(llm.response, k)
                  /\ llm_result.llm_data[k] = IntV(PyInt(llm.response[k]).n)
        /\ \A k \in {"description", "group"} :
              (k \in DOMAIN llm.response /\ Truthy(llm.response[k])) =>
                  k \in DOMAIN llm_result.llm_data
        /\ \A k \in {"item_year", "item_year_to"} :
              YearInRange(llm.response, k) => k \in DOMAIN llm_result.llm_data

\* The part of C24 that holds: a year in the validated mapping is the
\* integer of a raw value within the limits.
C24_YearWithinLimits ==
    Validated =>
        \A k \in {"item_year", "item_year_to"} :
            k \in DOMAIN llm_result.llm_data =>
                /\ YearInRange(llm.response, k)
                /\ llm_result.llm_data[k] = IntV(PyInt(llm.response[k]).n)

\* A raw item_year that is text and no number was left out and the other
\* fields were kept.
C24_UnparsedYearOmitted ==
    /\ Validated
    /\ "item_year" \in DOMAIN llm.response
    /\ llm.response["item_year"] = Str(<<"2", "0", "x", "1">>)
    /\ DOMAIN llm_result.llm_data = {"description", "group", "item_year_to"}

\* The controlled vocabulary of a category and subcategory, empty without.
Vocabulary(category, subcategory) ==
    IF category \in DOMAIN category_group_mappings
         /\ subcategory \in DOMAIN category_group_mappings[category]
    THEN category_group_mappings[category][subcategory]
    ELSE <<>>

\* The group and the entry are equal without regard to case.
ExactMatch(group, entry) == Lower(group.s) = Lower(entry)

\* One of the group and the entry holds the other, without regard to case.
PartialMatch(group, entry) ==
    \/ IsSubstring(Lower(group.s), Lower(entry))
    \/ IsSubstring(Lower(entry), Lower(group.s))

\* The validator was handed a group and its output holds one.
GroupValidated ==
    /\ Validated
    /\ "group" \in DOMAIN llm.response
    /\ "group" \in DOMAIN llm_result.llm_data

\* C25: the validated group is the canonical entry of the first exact match
\* of the vocabulary when there is one, else of the first entry that holds
\* the group or is held by it, else the raw group unchanged; so a group that
\* matches nothing, and any group where there is no vocabulary, is passed
\* through and never rejected.
C25_GroupCanonicalOrUnchanged ==
    GroupValidated =>
        LET group == llm.response["group"]
            out == llm_result.llm_data["group"]
            vocabulary == Vocabulary(request.category, request.subcategory)
            entries == 1..Len(vocabulary)
        IN /\ (\E i \in entries : ExactMatch(group, vocabulary[i])) =>
                 \E i \in entries :
                     /\ ExactMatch(group, vocabulary[i])
                     /\ \A j \in 1..(i - 1) : ~ExactMatch(group, vocabulary[j])
                     /\ out = Str(vocabulary[i])
           /\ ((\A i \in entries : ~ExactMatch(group, vocabulary[i]))
                 /\ (\E i \in entries : PartialMatch(group, vocabulary[i]))) =>
                 \E i \in entries :
                     /\ PartialMatch(group, vocabulary[i])
                     /\ \A j \in 1..(i - 1) : ~PartialMatch(group, vocabulary[j])
                     /\ out = Str(vocabulary[i])
           /\ (\A i \in entries : ~PartialMatch(group, vocabulary[i])) =>
                 out = group

\* C25 witness: "FC Barcelona" for sports/soccer, whose vocabulary holds no
\* entry that matches, came out of the validator unchanged.
C25_Witness ==
    /\ GroupValidated
    /\ request.category = "sports" /\ request.subcategory = "soccer"
    /\ llm.response["group"] = Str(<<"F", "C", " ", "B", "a", "r", "c", "e", "l", "o", "n", "a">>)
    /\ llm_result.llm_data["group"] = llm.response["group"]

\* "rpg" for games/video_games came out in the casing of the vocabulary.
C25_ExactMatchCanonical ==
    /\ GroupValidated
    /\ request.subcategory = "video_games"
    /\ llm.response["group"] = Str(<<"r", "p", "g">>)
    /\ llm_result.llm_data["group"] = Str(<<"R", "P", "G">>)

\* "team" for sports/basketball came out as the first entry that holds it,
\* and "Indie Rock" for music/artists as the first entry it holds.
C25_PartialMatchCanonical ==
    /\ GroupValidated
    /\ \/ /\ request.subcategory = "basketball"
          /\ llm.response["group"] = Str(<<"t", "e", "a", "m">>)
          /\ llm_result.llm_data["group"] = Str(<<"N", "B", "A", " ", "T", "e", "a", "m">>)
       \/ /\ request.subcategory = "artists"
          /\ llm.response["group"] = Str(<<"I", "n", "d", "i", "e", " ", "R", "o", "c", "k">>)
          /\ llm_result.llm_data["group"] = Str(<<"R", "o", "c", "k">>)

\* create_item_from_research is about to be called, or has inserted a row.
Creating == pc = "create" \/ inserted # Unset

\* C26: an item is created while the Duplicate Guard reports is_duplicate
\* only with allow_duplicate set, and while it reports exact_match only
\* with allow_duplicate set and duplicate_action allow; with the default
\* flags nothing is created for a request that was reported a duplicate.
C26_DuplicateCreationNeedsFlags ==
    /\ Creating =>
          /\ duplicate_info.is_duplicate => request.allow_duplicate
          /\ duplicate_info.exact_match =>
                (request.allow_duplicate /\ request.duplicate_action = "allow")
    /\ (pc # "idle" /\ duplicate_info.is_duplicate
          /\ ~request.allow_duplicate /\ request.duplicate_action = "reject") =>
          /\ ~Creating
          /\ calls.create = 0

\* C26 witness: an exact match was reported, both flags allowed the
\* duplicate, and a second row of the triple was inserted.
C26_Witness ==
    /\ pc = "done"
    /\ duplicate_info.is_duplicate /\ duplicate_info.exact_match
    /\ request.allow_duplicate /\ request.duplicate_action = "allow"
    /\ inserted # Unset
    /\ response.item_created
    /\ catalog[TripleOf(request)] = 2

\* A near duplicate that is no exact match was reported, allow_duplicate was
\* set with duplicate_action reject, and the item was created.
C26_NearDuplicateCreated ==
    /\ pc = "done"
    /\ duplicate_info.is_duplicate /\ ~duplicate_info.exact_match
    /\ request.allow_duplicate /\ request.duplicate_action = "reject"
    /\ response.item_created

\* The six researched fields of a research result.
ResearchedFields ==
    {"description", "group", "item_year", "item_year_to", "reference_url",
     "image_url"}

\* C27 (as claimed): after a successful auto-creation every non-null
\* researched field of the response (description, group, item_year,
\* item_year_to, reference_url, image_url) is in the inserted row with the
\* same value.
C27_RowCarriesResearchedValues ==
    (pc = "done" /\ response.item_created /\ inserted # Unset) =>
        \A k \in ResearchedFields :
            response[k] # None => Get(inserted, k) = response[k]

\* The part of C27 that holds: the fields ItemCreate declares are in the
\* inserted row with the values of the response.
C27_DeclaredFieldsCarried ==
    (pc = "done" /\ response.item_created /\ inserted # Unset) =>
        \A k \in {"description", "item_year", "item_year_to", "reference_url"} :
            response[k] # None => Get(inserted, k) = response[k]

\* A row was inserted for a response that holds a group and an image_url.
C27_CreatedWithGroupAndImage ==
    /\ pc = "done" /\ response.item_created /\ inserted # Unset
    /\ response["group"] # None
    /\ response["image_url"] # None

\* The LLM stage returned confidence 0: the collaborator was unavailable
\* or the call raised.
LlmStageFailed == llm_result # Unset /\ llm_result.llm_confidence = 0

\* C28: after an LLM stage that failed, create_item_from_research is not
\* called and no row is inserted, whatever the web stage supplied; a
\* response with item_created true is valid, has research performed, and
\* comes from an LLM stage of confidence 90.
C28_NoCreateAfterLlmFailure ==
    /\ LlmStageFailed =>
          /\ ~Creating
          /\ calls.create = 0
          /\ response # Unset => ~response.item_created
    /\ (response # Unset /\ response.item_created) =>
          /\ response.is_valid
          /\ response.research_performed
          /\ llm_result # Unset
          /\ llm_result.llm_confidence = LLM_CONFIDENCE

\* C28 witness: auto_create was requested with no duplicate in the way, the
\* LLM call raised, the web stage supplied description, group, item_year,
\* reference_url and image_url, and the request ended without a creation.
C28_Witness ==
    /\ pc = "done"
    /\ request.auto_create
    /\ ~duplicate_info.is_duplicate
    /\ LlmStageFailed /\ llm.raises
    /\ web_result # Unset
    /\ web_result.web_confidence = WEB_CONFIDENCE
    /\ DOMAIN web_result.web_data =
          {"description", "group", "item_year", "reference_url", "image_url"}
    /\ response.llm_confidence = WEB_BONUS
    /\ ~response.item_created
    /\ calls.create = 0

\* C29: item_year_to of a research result never comes from the web stage:
\* the web stage's data never holds it, and the result's item_year_to is the
\* LLM stage's validated value, or null when the LLM stage gave none or the
\* call faulted, whatever the web collaborator returned.
C29_YearToNeverFromWeb ==
    /\ WebStageDone => "item_year_to" \notin DOMAIN web_result.web_data
    /\ Researched =>
          Get(research_result, "item_year_to")
              = Get(llm_result.llm_data, "item_year_to")
    /\ pc = "faulted" => Get(research_result, "item_year_to") = None

\* C29 witness: the LLM stage gave no item_year_to, the web collaborator
\* found one on a successful lookup, and the result's item_year_to is null.
C29_Witness ==
    /\ Researched
    /\ WebLookupSucceeded
    /\ "item_year_to" \notin DOMAIN llm_result.llm_data
    /\ "item_year_to" \in DOMAIN web.result.metadata
    /\ web.result.metadata["item_year_to"] = IntV(2021)
    /\ research_result.item_year_to = None

\* process_item has returned.
Returned == updater.pc = "returned"

\* The columns of the row found that hold a value.
FilledColumns == {k \in field_mappings : Truthy(Get(updater.stored, k))}

\* C30: process_item never overwrites a column that holds a non-empty
\* value.  For an item found it sends at most one update, of columns whose
\* stored value is null or empty and whose researched value is non-empty,
\* and every filled column of the row keeps its value; for an item not found
\* it sends one insert and no update; with no research data or with status
\* "failed" it sends nothing, leaves the row as it was and returns False.
C30_FilledColumnsKept ==
    /\ \A k \in FilledColumns : updater.row[k] = updater.stored[k]
    /\ \A i \in 1..Len(updater.sent) :
          updater.sent[i].op = "update" =>
              /\ updater.existing_item # None
              /\ \A k \in DOMAIN updater.sent[i].data :
                    /\ k \in field_mappings
                    /\ ~Truthy(Get(updater.stored, k))
                    /\ Truthy(Get(updater.research_data, k))
                    /\ updater.sent[i].data[k] = updater.research_data[k]
    /\ Len(updater.sent) <= 1
    /\ (Returned /\ ~no_research_data(updater.research_data)
          /\ updater.existing_item = None) =>
          /\ Len(updater.sent) = 1
          /\ updater.sent[1].op = "insert"
    /\ (Returned /\ no_research_data(updater.research_data)) =>
          /\ updater.sent = <<>>
          /\ updater.row = updater.stored
          /\ updater.result = "False"

\* C30 witness: the row found held a description and no group; the research
\* gave both; the one update sent held the group and not the description,
\* and the row keeps its description.
C30_Witness ==
    /\ Returned
    /\ updater.result = "True"
    /\ updater.stored # NoRow
    /\ Truthy(updater.stored["description"])
    /\ ~Truthy(updater.stored["group"])
    /\ Truthy(Get(updater.research_data, "description"))
    /\ Truthy(Get(updater.research_data, "group"))
    /\ Len(updater.sent) = 1
    /\ updater.sent[1].op = "update"
    /\ "group" \in DOMAIN updater.sent[1].data
    /\ "description" \notin DOMAIN updater.sent[1].data
    /\ updater.row["description"] = updater.stored["description"]
    /\ updater.row["group"] = updater.research_data["group"]

\* An item not found was created by one insert.
C30_MissingItemInserted ==
    /\ Returned
    /\ updater.stored = NoRow
    /\ updater.result = "True"
    /\ Len(updater.sent) = 1
    /\ updater.sent[1].op = "insert"

\* Research with status "failed" that still named a group wrote nothing.
C30_FailedStatusWritesNothing ==
    /\ Returned
    /\ updater.stored # NoRow
    /\ "group" \in DOMAIN updater.generated
    /\ Get(updater.generated, "status") = Str(<<"f", "a", "i", "l", "e", "d">>)
    /\ updater.sent = <<>>
    /\ updater.result = "False"

====
